---- MODULE Spec2Model ----
(***************************************************************************)
(* Memory-management core of boyko_ecs: Arena (bump allocator with a       *)
(* free list), MemFreeBlockMaster (best-fit free-block allocator), Chunk   *)
(* (fixed-capacity slot array with a free bitmap) and ComponentPool        *)
(* (primary + overflow chunks behind a global index table).                *)
(*                                                                         *)
(* Every component is modelled as a record; every method is an operator    *)
(* from the record (and the arguments) to the new record and the returned  *)
(* value.  One specification per component drives the methods:             *)
(* SpecArena, SpecFBM, SpecChunk, SpecChunkRange, SpecPool; SpecWorkload   *)
(* and SpecPoolThreads split a pool's records among threads;               *)
(* SpecArenaShared lets threads share one Arena; SpecPoolAnyFree frees any *)
(* location of a pool, occupied or not; SpecFBMDefrag adds defragment to   *)
(* MemFreeBlockMaster; SpecFreeChunks drives FreeChunkMaster.              *)
(* boyko_utils' sparse maps (SparseSlotMap, SparseMap) run under           *)
(* SpecSlotMap and SpecSparseMap.                                          *)
(***************************************************************************)
EXTENDS Integers, Sequences, FiniteSets, Bags, TLC

VARIABLES
    arena,       \* Arena: [capacity, cursor, free_blocks]
    arena_live,  \* ghost: bag of the live allocations [offset, size]
    arena_ret,   \* ghost: the last Arena call, its arguments and result
    fbm,         \* MemFreeBlockMaster
    fbm_ret,     \* ghost: the last MemFreeBlockMaster call and its result
    chunk,       \* Chunk<T>
    chunk_ret,   \* ghost: the last Chunk call and its result
    pool,        \* ComponentPool<T>
    pool_live,   \* ghost: the records allocated and not yet freed
    pool_ret,    \* ghost: the last ComponentPool call and its result
    workload,    \* ghost: the last thread-range computation and its result
    slotmap,     \* SparseSlotMap<usize, U>
    slotmap_ret, \* ghost: the last SparseSlotMap call and its result
    slotmap_hist,\* ghost: a slot whose remove succeeded, and removes since
    smap,        \* SparseMap<usize, U>
    smap_ret,    \* ghost: the last SparseMap call and its result
    smap_model,  \* ghost: the finite map the SparseMap calls describe
    threads,     \* the threads sharing one Arena: where each is in allocate
    free_chunks, \* FreeChunkMaster
    free_chunks_ret, \* ghost: the last FreeChunkMaster call and its result
    fbm_twin     \* a MemFreeBlockMaster given the calls of fbm, but no defragment

vars == <<arena, arena_live, arena_ret, fbm, fbm_ret, chunk, chunk_ret,
          pool, pool_live, pool_ret, workload, slotmap, slotmap_ret,
          slotmap_hist, smap, smap_ret, smap_model, threads, free_chunks,
          free_chunks_ret, fbm_twin>>

arenaVars == <<arena, arena_live, arena_ret>>
fbmVars   == <<fbm, fbm_ret, fbm_twin>>
chunkVars == <<chunk, chunk_ret>>
poolVars  == <<pool, pool_live, pool_ret>>
slotVars  == <<slotmap, slotmap_ret, slotmap_hist>>
smapVars  == <<smap, smap_ret, smap_model>>
freeChunkVars == <<free_chunks, free_chunks_ret>>
utilVars  == <<workload, slotVars, smapVars, threads, freeChunkVars>>

(***************************************************************************)
(* Option<usize>, usize::MAX, Vec helpers                                  *)
(***************************************************************************)
None    == [some |-> FALSE, val |-> 0]
Some(x) == [some |-> TRUE, val |-> x]

\* usize::MAX: only used as "larger than every size" and as the deleted
\* marker of the index table; the largest integer of the checker stands for it.
USIZE_MAX == 2147483647

Min(S) == CHOOSE x \in S : \A y \in S : x <= y
Max(S) == CHOOSE x \in S : \A y \in S : x >= y

RECURSIVE SumSeq(_)
SumSeq(s) == IF s = <<>> THEN 0 ELSE Head(s) + SumSeq(Tail(s))

\* Vec::swap_remove(i), i a position 1..Len(s): the last element takes place i
SwapRemove(s, i) ==
    IF i = Len(s) THEN SubSeq(s, 1, Len(s) - 1)
    ELSE [SubSeq(s, 1, Len(s) - 1) EXCEPT ![i] = s[Len(s)]]

\* Vec::remove(i): the elements after position i shift down
RemoveAt(s, i) == SubSeq(s, 1, i - 1) \o SubSeq(s, i + 1, Len(s))

(***************************************************************************)
(* utils.rs                                                                *)
(***************************************************************************)
RECURSIVE is_power_of_two(_)
\* n != 0 && (n & (n - 1)) == 0: exactly one bit of n is set
is_power_of_two(n) ==
    IF n <= 0 THEN FALSE
    ELSE IF n = 1 THEN TRUE
    ELSE n % 2 = 0 /\ is_power_of_two(n \div 2)

\* (val + align - 1) & !(align - 1): for align a power of two the mask clears
\* the low bits, which rounds val + align - 1 down to a multiple of align
align_up(val, align) == ((val + align - 1) \div align) * align

(***************************************************************************)
(* constants.rs, arena.rs                                                  *)
(***************************************************************************)
CACHE_LINE_SIZE     == 64
MIN_ALIGNMENT       == 8
MAX_FREE_BLOCKS     == 32
MIN_COMPONENTS_FOR_COMPACTION == 16
MIN_FREE_BLOCK_SIZE == 64

FreeBlock(o, s) == [offset |-> o, size |-> s]

\* Arena::new(capacity): the capacity is rounded up to 64, the cursor is 0
Arena_new(capacity) ==
    [capacity |-> align_up(capacity, 64), cursor |-> 0, free_blocks |-> <<>>]

\* the aligned address as allocate and allocate_from_free_blocks compute it:
\* (start + align_mask) & !align_mask with align_mask = align - 1
aligned_addr_mut(start, align) == start
aligned_addr(start, align) ==
    LET align_mask == align - 1
    IN  ((start + align_mask) \div (align_mask + 1)) * (align_mask + 1)

NoBestFit == [idx |-> 0, size |-> USIZE_MAX, addr |-> 0]

\* the best-fit loop of allocate_from_free_blocks over blocks i..Len(fb);
\* best = (best_fit_idx, best_fit_size, best_aligned_addr), idx 0 for None
RECURSIVE BestFitScan(_, _, _, _, _)
BestFitScan(fb, i, best, size, align) ==
    IF i > Len(fb) THEN best
    ELSE LET block           == fb[i]
             block_start     == block.offset
             aligned         == aligned_addr(block_start, align)
             alignment_waste == aligned - block_start
             total_size      == size + alignment_waste
         IN  IF block.size >= total_size /\ block.size < best.size
             THEN LET nb == [idx |-> i, size |-> block.size, addr |-> aligned]
                  IN  IF block.size <= total_size + MIN_FREE_BLOCK_SIZE
                      THEN nb   \* break
                      ELSE BestFitScan(fb, i + 1, nb, size, align)
             ELSE BestFitScan(fb, i + 1, best, size, align)

\* the free list after the chosen block idx served total_size bytes
TakeFromBlock_mut(fb, idx, total_size, alignment_waste) == fb
TakeFromBlock(fb, idx, total_size, alignment_waste) ==
    LET block == fb[idx]
    IN  IF block.size - total_size >= MIN_FREE_BLOCK_SIZE
        THEN LET upd == [fb EXCEPT ![idx] =
                            FreeBlock(block.offset + total_size,
                                      block.size - total_size)]
             IN  IF alignment_waste >= MIN_FREE_BLOCK_SIZE
                    /\ Len(upd) < MAX_FREE_BLOCKS
                 THEN Append(upd, FreeBlock(block.offset, alignment_waste))
                 ELSE upd
        ELSE SwapRemove(fb, idx)

\* a first-fit allocate_from_free_blocks: the scan stops at the first block
\* that is large enough
allocate_from_free_blocks_mut(a, size, align) ==
    LET fit == {k \in 1..Len(a.free_blocks) :
                   a.free_blocks[k].size
                     >= size + (aligned_addr(a.free_blocks[k].offset, align)
                                  - a.free_blocks[k].offset)}
    IN  IF fit # {}
        THEN LET block           == a.free_blocks[Min(fit)]
                 addr            == aligned_addr(block.offset, align)
                 alignment_waste == addr - block.offset
                 total_size      == size + alignment_waste
             IN  [arena |-> [a EXCEPT !.free_blocks =
                                TakeFromBlock(a.free_blocks, Min(fit),
                                              total_size, alignment_waste)],
                  ret   |-> Some(addr),
                  path  |-> "freelist"]
        ELSE [arena |-> a, ret |-> None, path |-> "freelist"]

\* Arena::allocate_from_free_blocks
allocate_from_free_blocks(a, size, align) ==
    LET best == BestFitScan(a.free_blocks, 1, NoBestFit, size, align)
    IN  IF best.idx # 0
        THEN LET block           == a.free_blocks[best.idx]
                 alignment_waste == best.addr - block.offset
                 total_size      == size + alignment_waste
             IN  [arena |-> [a EXCEPT !.free_blocks =
                                TakeFromBlock(a.free_blocks, best.idx,
                                              total_size, alignment_waste)],
                  ret   |-> Some(best.addr),
                  path  |-> "freelist"]
        ELSE [arena |-> a, ret |-> None, path |-> "freelist"]

\* an allocate that keeps the aligned cursor when the request does not fit
Arena_allocate_mut(a, size, align) ==
    IF size = 0 THEN [arena |-> a, ret |-> Some(0), path |-> "zero"]
    ELSE IF a.free_blocks # <<>> THEN allocate_from_free_blocks(a, size, align)
    ELSE LET addr == aligned_addr(a.cursor, align)
             next == addr + size
         IN  IF next > a.capacity
             THEN [arena |-> [a EXCEPT !.cursor = Min({addr, a.capacity})],
                   ret |-> None, path |-> "bump"]
             ELSE [arena |-> [a EXCEPT !.cursor = next],
                   ret   |-> Some(addr),
                   path  |-> "bump"]

\* Arena::allocate; ret is the offset of the returned pointer from the base
Arena_allocate(a, size, align) ==
    IF size = 0 THEN [arena |-> a, ret |-> Some(0), path |-> "zero"]
    ELSE IF a.free_blocks # <<>> THEN allocate_from_free_blocks(a, size, align)
    ELSE LET addr == aligned_addr(a.cursor, align)
             next == addr + size
         IN  IF next > a.capacity
             THEN [arena |-> a, ret |-> None, path |-> "bump"]
             ELSE [arena |-> [a EXCEPT !.cursor = next],
                   ret   |-> Some(addr),
                   path  |-> "bump"]

\* the first loop of free: the first tracked block adjacent to the freed
\* region absorbs it (merged = TRUE), else the list is left alone
MergeFirst(fb, offset, size) ==
    LET adj == {i \in 1..Len(fb) :
                   \/ fb[i].offset + fb[i].size = offset
                   \/ offset + size = fb[i].offset}
    IN  IF adj = {} THEN [merged |-> FALSE, fb |-> fb]
        ELSE LET i == Min(adj)
             IN  IF fb[i].offset + fb[i].size = offset
                 THEN [merged |-> TRUE,
                       fb |-> [fb EXCEPT ![i] =
                                  FreeBlock(fb[i].offset, fb[i].size + size)]]
                 ELSE [merged |-> TRUE,
                       fb |-> [fb EXCEPT ![i] =
                                  FreeBlock(offset, fb[i].size + size)]]

\* free, not merged: push, or (list full) replace the first smallest block
\* when the new block is larger, else drop the new block
AddFreeBlock_mut(fb, offset, size) == fb
AddFreeBlock(fb, offset, size) ==
    IF Len(fb) >= MAX_FREE_BLOCKS
    THEN LET smallest_size == Min({fb[i].size : i \in 1..Len(fb)})
             smallest_idx  == Min({i \in 1..Len(fb) : fb[i].size = smallest_size})
         IN  IF size > smallest_size
             THEN [fb EXCEPT ![smallest_idx] = FreeBlock(offset, size)]
             ELSE fb
    ELSE Append(fb, FreeBlock(offset, size))

\* sort_by_key(|block| block.offset): a stable sort
RECURSIVE InsertByOffset(_, _)
InsertByOffset(s, b) ==
    IF s = <<>> THEN <<b>>
    ELSE IF s[Len(s)].offset <= b.offset THEN Append(s, b)
    ELSE Append(InsertByOffset(SubSeq(s, 1, Len(s) - 1), b), s[Len(s)])

RECURSIVE SortByOffset(_)
SortByOffset(s) ==
    IF s = <<>> THEN <<>>
    ELSE InsertByOffset(SortByOffset(SubSeq(s, 1, Len(s) - 1)), s[Len(s)])

\* the while loop of merge_adjacent_blocks from position i (1-based)
RECURSIVE MergeLoop(_, _)
MergeLoop(fb, i) ==
    IF i >= Len(fb) THEN fb
    ELSE IF fb[i].offset + fb[i].size = fb[i + 1].offset
         THEN MergeLoop(RemoveAt([fb EXCEPT ![i] =
                                     FreeBlock(fb[i].offset,
                                               fb[i].size + fb[i + 1].size)],
                                 i + 1), i)
         ELSE MergeLoop(fb, i + 1)

\* Arena::merge_adjacent_blocks
merge_adjacent_blocks(fb) ==
    IF Len(fb) <= 1 THEN fb ELSE MergeLoop(SortByOffset(fb), 1)

\* Arena::try_reclaim_tail
RECURSIVE try_reclaim_tail(_)
try_reclaim_tail(a) ==
    IF a.free_blocks = <<>> THEN a
    ELSE LET fb             == a.free_blocks
             highest_offset == Max({fb[i].offset : i \in 1..Len(fb)})
             highest_idx    == Min({i \in 1..Len(fb) : fb[i].offset = highest_offset})
             block          == fb[highest_idx]
         IN  IF block.offset + block.size = a.cursor
             THEN try_reclaim_tail([a EXCEPT !.cursor = block.offset,
                                             !.free_blocks = SwapRemove(fb, highest_idx)])
             ELSE a

\* Arena::free(ptr, size), ptr given as its offset from the base
Arena_free(a, offset, size) ==
    IF size = 0 THEN a
    ELSE IF offset + size = a.cursor THEN [a EXCEPT !.cursor = offset]
    ELSE IF size < MIN_FREE_BLOCK_SIZE THEN a
    ELSE LET m   == MergeFirst(a.free_blocks, offset, size)
             fb1 == IF m.merged THEN m.fb
                    ELSE AddFreeBlock(a.free_blocks, offset, size)
         IN  try_reclaim_tail([a EXCEPT !.free_blocks = merge_adjacent_blocks(fb1)])

\* Arena::reset
Arena_reset_mut(a) == [a EXCEPT !.cursor = 0]
Arena_reset(a) == [a EXCEPT !.cursor = 0, !.free_blocks = <<>>]

\* Arena::available_space, Arena::used_space
available_space(a) ==
    (a.capacity - a.cursor)
      + SumSeq([i \in 1..Len(a.free_blocks) |-> a.free_blocks[i].size])
used_space(a) == a.capacity - available_space(a)

(***************************************************************************)
(* free_mem_block.rs: MemFreeBlockMaster                                   *)
(* blocks is a Vec (position i + 1 holds Rust index i), free_ind a Vec of  *)
(* vacant indices, mem_size_tree a BTreeMap size -> Vec of indices,        *)
(* start_map / end_map HashMaps offset -> index, size the active count.    *)
(***************************************************************************)
MemFreeBlock(s, e) == [start |-> s, end |-> e]
BlockSize(b) == b.end - b.start

MapPut(m, k, v) == [x \in (DOMAIN m) \cup {k} |-> IF x = k THEN v ELSE m[x]]
MapRemove(m, k) == [x \in (DOMAIN m) \ {k} |-> m[x]]

\* MemFreeBlockMaster::new
FBM_new ==
    [blocks |-> <<>>, free_ind |-> <<>>, mem_size_tree |-> <<>>,
     start_map |-> <<>>, end_map |-> <<>>, size |-> 0]

\* MemFreeBlockMaster::add_block: reuse the last vacant index, else push
add_block(f, block) ==
    IF f.free_ind # <<>>
    THEN LET index == f.free_ind[Len(f.free_ind)]
         IN  [fbm |-> [f EXCEPT !.free_ind = SubSeq(@, 1, Len(@) - 1),
                                !.blocks[index + 1] = block],
              index |-> index]
    ELSE [fbm |-> [f EXCEPT !.blocks = Append(@, block)],
          index |-> Len(f.blocks)]

\* position of the first occurrence of x in s, 0 when absent
PositionOf(s, x) ==
    IF \E i \in 1..Len(s) : s[i] = x
    THEN Min({i \in 1..Len(s) : s[i] = x})
    ELSE 0

\* MemFreeBlockMaster::remove_block_index
remove_block_index(f, index) ==
    LET block == f.blocks[index + 1]
        size  == BlockSize(block)
        tree  == IF size \in DOMAIN f.mem_size_tree
                 THEN LET indices == f.mem_size_tree[size]
                          pos     == PositionOf(indices, index)
                      IN  IF pos # 0
                          THEN IF Len(indices) = 1
                               THEN MapRemove(f.mem_size_tree, size)
                               ELSE [f.mem_size_tree EXCEPT
                                        ![size] = SwapRemove(indices, pos)]
                          ELSE f.mem_size_tree
                 ELSE f.mem_size_tree
    IN  [f EXCEPT !.start_map = MapRemove(@, block.start),
                  !.end_map = MapRemove(@, block.end),
                  !.mem_size_tree = tree,
                  !.free_ind = Append(@, index),
                  !.size = @ - 1]

\* MemFreeBlockMaster::try_merge_remove: the block ending at block.start and
\* the block starting at block.end are removed and absorbed
try_merge_remove_mut(f, block) == [fbm |-> f, block |-> block]
try_merge_remove(f, block) ==
    LET hasLeft == block.start \in DOMAIN f.end_map
        f1      == IF hasLeft
                   THEN remove_block_index(f, f.end_map[block.start])
                   ELSE f
        b1      == IF hasLeft
                   THEN [block EXCEPT !.start =
                            f.blocks[f.end_map[block.start] + 1].start]
                   ELSE block
        hasRight == b1.end \in DOMAIN f1.start_map
        f2      == IF hasRight
                   THEN remove_block_index(f1, f1.start_map[b1.end])
                   ELSE f1
        b2      == IF hasRight
                   THEN [b1 EXCEPT !.end =
                            f1.blocks[f1.start_map[b1.end] + 1].end]
                   ELSE b1
    IN  [fbm |-> f2, block |-> b2]

\* MemFreeBlockMaster::insert
FBM_insert(f, block0) ==
    LET m     == try_merge_remove(f, block0)
        block == m.block
        a     == add_block(m.fbm, block)
        index == a.index
        size  == BlockSize(block)
        tree  == a.fbm.mem_size_tree
    IN  [a.fbm EXCEPT
            !.start_map = MapPut(@, block.start, index),
            !.end_map = MapPut(@, block.end, index),
            !.mem_size_tree =
                IF size \in DOMAIN tree
                THEN [tree EXCEPT ![size] = Append(@, index)]
                ELSE MapPut(tree, size, <<index>>),
            !.size = @ + 1]

\* MemFreeBlockMaster::find_best_fit_with_index: the first index stored under
\* the smallest key >= min_size (mem_size_tree.range(min_size..).next())
find_best_fit_with_index_mut(f, min_size) ==
    IF DOMAIN f.mem_size_tree = {} THEN None
    ELSE LET key == Max(DOMAIN f.mem_size_tree)
             idx == f.mem_size_tree[key][1]
         IN  Some([index |-> idx, block |-> f.blocks[idx + 1]])
find_best_fit_with_index(f, min_size) ==
    LET keys == {k \in DOMAIN f.mem_size_tree : k >= min_size}
    IN  IF keys = {} THEN None
        ELSE LET key == Min(keys)
                 idx == f.mem_size_tree[key][1]
             IN  Some([index |-> idx, block |-> f.blocks[idx + 1]])

\* MemFreeBlockMaster::find_best_fit
find_best_fit(f, min_size) ==
    LET r == find_best_fit_with_index(f, min_size)
    IN  IF r.some THEN Some(r.val.block) ELSE None

\* MemFreeBlockMaster::allocate: the start address, or None
FBM_allocate_mut(f, size) ==
    IF size = 0 THEN [fbm |-> f, ret |-> None]
    ELSE LET r == find_best_fit_with_index(f, size)
         IN  IF ~r.some THEN [fbm |-> f, ret |-> None]
             ELSE [fbm |-> remove_block_index(f, r.val.index),
                   ret |-> Some(r.val.block.start)]
FBM_allocate(f, size) ==
    IF size = 0 THEN [fbm |-> f, ret |-> None]
    ELSE LET r == find_best_fit_with_index(f, size)
         IN  IF ~r.some THEN [fbm |-> f, ret |-> None]
             ELSE LET block == r.val.block
                      f1    == remove_block_index(f, r.val.index)
                      remainder_size == BlockSize(block) - size
                  IN  [fbm |-> IF remainder_size > 0
                               THEN FBM_insert(f1, MemFreeBlock(block.start + size,
                                                                block.end))
                               ELSE f1,
                       ret |-> Some(block.start)]

\* MemFreeBlockMaster::len
FBM_len(f) == f.size

\* MemFreeBlockMaster::total_free_size: sum of size * indices.len()
RECURSIVE SumTree(_, _)
SumTree(tree, keys) ==
    IF keys = {} THEN 0
    ELSE LET k == CHOOSE x \in keys : TRUE
         IN  k * Len(tree[k]) + SumTree(tree, keys \ {k})
total_free_size(f) == SumTree(f.mem_size_tree, DOMAIN f.mem_size_tree)

\* MemFreeBlockMaster::get_memory_stats
get_memory_stats(f) ==
    [active_blocks |-> f.size, total_blocks |-> Len(f.blocks),
     free_slots |-> Len(f.free_ind), total_memory |-> total_free_size(f)]

\* HashMap::insert of (keys[i], base + i - 1) for i = k..Len(keys), in order
RECURSIVE PutEach(_, _, _, _)
PutEach(m, keys, base, k) ==
    IF k > Len(keys) THEN m
    ELSE PutEach(MapPut(m, keys[k], base + k - 1), keys, base, k + 1)

\* the loop of defragment over the sizes of mem_size_tree, ascending: the
\* blocks of one size are pushed in the order of its index vector
RECURSIVE DefragmentLoop(_, _, _)
DefragmentLoop(f, sizes, new) ==
    IF sizes = {} THEN new
    ELSE LET size    == Min(sizes)
             indices == f.mem_size_tree[size]
             base    == Len(new.blocks)
             Block(i) == f.blocks[indices[i] + 1]
         IN  DefragmentLoop(
                 f, sizes \ {size},
                 [blocks |-> new.blocks \o [i \in 1..Len(indices) |-> Block(i)],
                  mem_size_tree |->
                      MapPut(new.mem_size_tree, size,
                             [i \in 1..Len(indices) |-> base + i - 1]),
                  start_map |->
                      PutEach(new.start_map,
                              [i \in 1..Len(indices) |-> Block(i).start],
                              base, 1),
                  end_map |->
                      PutEach(new.end_map,
                              [i \in 1..Len(indices) |-> Block(i).end],
                              base, 1)])

\* a defragment that keeps the list of vacant indices
FBM_defragment_mut(f) ==
    IF f.free_ind = <<>> THEN f
    ELSE LET new == DefragmentLoop(f, DOMAIN f.mem_size_tree,
                                   [blocks |-> <<>>, mem_size_tree |-> <<>>,
                                    start_map |-> <<>>, end_map |-> <<>>])
         IN  [f EXCEPT !.blocks = new.blocks,
                       !.mem_size_tree = new.mem_size_tree,
                       !.start_map = new.start_map,
                       !.end_map = new.end_map]

\* MemFreeBlockMaster::defragment
FBM_defragment(f) ==
    IF f.free_ind = <<>> THEN f
    ELSE LET new == DefragmentLoop(f, DOMAIN f.mem_size_tree,
                                   [blocks |-> <<>>, mem_size_tree |-> <<>>,
                                    start_map |-> <<>>, end_map |-> <<>>])
         IN  [f EXCEPT !.blocks = new.blocks,
                       !.mem_size_tree = new.mem_size_tree,
                       !.start_map = new.start_map,
                       !.end_map = new.end_map,
                       !.free_ind = <<>>]

\* the tracked free blocks: the blocks the size index refers to
TrackedIdx(f) ==
    UNION {{f.mem_size_tree[k][i] : i \in 1..Len(f.mem_size_tree[k])} :
              k \in DOMAIN f.mem_size_tree}
Tracked(f) == {f.blocks[i + 1] : i \in TrackedIdx(f)}

(***************************************************************************)
(* chunk.rs: Chunk<T>                                                      *)
(* free_bitmap is a Vec<u64>; a word is modelled as the set of its set bit *)
(* positions (1 = free).  data is the slot array behind ptr (position      *)
(* i + 1 holds slot i); 0 is zeroed memory.                                *)
(***************************************************************************)
\* size_of::<T>() and log2 of align_of::<T>() of the component type T
ComponentSize      == 12
ComponentAlignLog2 == 2
ComponentAlign     == 2 ^ ComponentAlignLog2

\* utils::set_bit, clear_bit, test_bit on a word
set_bit_mut(word, pos) == word \cup {pos, (pos + 1) % 64}
set_bit(word, pos)   == word \cup {pos}
clear_bit(word, pos) == word \ {pos}
test_bit(word, pos)  == pos \in word
\* u64::trailing_zeros of a non-zero word
trailing_zeros_mut(word) == Max(word)
trailing_zeros(word) == Min(word)

\* the initial word i (0-based) of a bitmap over `capacity` slots:
\* !0u64 when 64 or more slots remain, else (1 << remaining) - 1
InitialWord(capacity, i) ==
    LET remaining == IF capacity >= i * 64 THEN capacity - i * 64 ELSE 0
    IN  IF remaining >= 64 THEN 0..63 ELSE 0..(remaining - 1)

InitialBitmap(capacity) ==
    [w \in 1..((capacity + 63) \div 64) |-> InitialWord(capacity, w - 1)]

EmptyChunk ==
    [ptr |-> 0, capacity |-> 0, count |-> 0, active_count |-> 0,
     chunk_size |-> 0, alignment |-> 0, component_size |-> 0,
     free_bitmap |-> <<>>, data |-> <<>>]

NoChunk      == [some |-> FALSE, val |-> EmptyChunk]
SomeChunk(c) == [some |-> TRUE, val |-> c]

\* Chunk::new once the arena answered m to allocate(chunk_size, CACHE_LINE_SIZE):
\* None when the arena had no room (the ? operator), else the empty chunk
ChunkOn(m, component_count, chunk_size, alignment, aligned_component_size) ==
    IF ~m.ret.some THEN [arena |-> m.arena, ret |-> NoChunk]
    ELSE [arena |-> m.arena,
          ret |-> SomeChunk(
              [ptr |-> m.ret.val,
               capacity |-> component_count,
               count |-> 0,
               active_count |-> 0,
               chunk_size |-> chunk_size,
               alignment |-> alignment,
               component_size |-> aligned_component_size,
               free_bitmap |-> InitialBitmap(component_count),
               data |-> [i \in 1..component_count |-> 0]])]

\* Chunk::new(arena, component_count): the arena after the call and the chunk
Chunk_new(a, component_count) ==
    LET component_size == ComponentSize
    IN  IF component_size = 0 THEN [arena |-> a, ret |-> NoChunk]
        ELSE LET alignment == IF ComponentAlign > MIN_ALIGNMENT
                              THEN ComponentAlign ELSE MIN_ALIGNMENT
                 aligned_component_size == align_up(component_size, alignment)
                 chunk_size == align_up(aligned_component_size * component_count,
                                        CACHE_LINE_SIZE)
             IN  ChunkOn(Arena_allocate(a, chunk_size, CACHE_LINE_SIZE),
                         component_count, chunk_size, alignment,
                         aligned_component_size)

\* the reuse loop of allocate_component over the words w.. (1-based): the
\* first non-zero word whose lowest set bit is a slot below capacity and count
RECURSIVE ReuseScan(_, _)
ReuseScan(c, w) ==
    IF w > Len(c.free_bitmap) THEN None
    ELSE LET bitmap == c.free_bitmap[w]
         IN  IF bitmap # {}
             THEN LET bit_pos == trailing_zeros(bitmap)
                      index   == (w - 1) * 64 + bit_pos
                  IN  IF index >= c.capacity \/ index >= c.count
                      THEN ReuseScan(c, w + 1)   \* continue
                      ELSE Some(index)
             ELSE ReuseScan(c, w + 1)

ClearSlotBit(bm, index) ==
    IF index \div 64 < Len(bm)
    THEN [bm EXCEPT ![(index \div 64) + 1] = clear_bit(@, index % 64)]
    ELSE bm

\* Chunk::allocate_component
Chunk_allocate_component_mut(c) ==
    IF c.active_count + 1 >= c.capacity THEN [chunk |-> c, ret |-> None]
    ELSE [chunk |-> [c EXCEPT !.free_bitmap = ClearSlotBit(@, c.count),
                              !.count = @ + 1, !.active_count = @ + 1],
          ret |-> Some(c.count)]
Chunk_allocate_component(c) ==
    IF c.active_count >= c.capacity THEN [chunk |-> c, ret |-> None]
    ELSE LET reuse == IF c.count > c.active_count THEN ReuseScan(c, 1) ELSE None
         IN  IF reuse.some
             THEN [chunk |-> [c EXCEPT
                                !.free_bitmap[(reuse.val \div 64) + 1] =
                                    clear_bit(@, reuse.val % 64),
                                !.active_count = @ + 1],
                   ret |-> Some(reuse.val)]
             ELSE IF c.count < c.capacity
             THEN [chunk |-> [c EXCEPT
                                !.free_bitmap = ClearSlotBit(@, c.count),
                                !.count = @ + 1,
                                !.active_count = @ + 1],
                   ret |-> Some(c.count)]
             ELSE [chunk |-> c, ret |-> None]

\* Chunk::free_component
Chunk_free_component_mut(c, index) ==
    IF index >= c.capacity \/ index >= c.count THEN c
    ELSE [c EXCEPT !.free_bitmap[(index \div 64) + 1] = set_bit(@, index % 64),
                   !.data[index + 1] = 0]
Chunk_free_component(c, index) ==
    IF index >= c.capacity \/ index >= c.count THEN c
    ELSE LET bitmap_idx == index \div 64
             bit_pos    == index % 64
         IN  IF bitmap_idx >= Len(c.free_bitmap) THEN c
             ELSE IF test_bit(c.free_bitmap[bitmap_idx + 1], bit_pos) THEN c
             ELSE [c EXCEPT
                     !.free_bitmap[bitmap_idx + 1] = set_bit(@, bit_pos),
                     !.active_count = IF @ > 0 THEN @ - 1 ELSE @,
                     !.data[index + 1] = 0]

\* Chunk::is_occupied
is_occupied(c, index) ==
    IF index >= c.capacity \/ index >= c.count THEN FALSE
    ELSE /\ index \div 64 < Len(c.free_bitmap)
         /\ ~test_bit(c.free_bitmap[(index \div 64) + 1], index % 64)

\* Chunk::write_component
write_component(c, index, value) == [c EXCEPT !.data[index + 1] = value]

\* the first slot at or after i, below limit, that is not occupied (else limit)
RECURSIVE SkipOccupied(_, _, _)
SkipOccupied(c, i, limit) ==
    IF i < limit /\ is_occupied(c, i) THEN SkipOccupied(c, i + 1, limit) ELSE i

\* the for loop of compact from read_idx, up to the count at entry;
\* moves collects the (old_index, new_index) given to the callback
RECURSIVE CompactLoop(_, _, _, _, _)
CompactLoop(c, read_idx, write_idx, end, moves) ==
    IF read_idx >= end THEN [chunk |-> c, moves |-> moves]
    ELSE IF is_occupied(c, read_idx)
    THEN LET c1 == [c EXCEPT
                      !.data[write_idx + 1] = c.data[read_idx + 1],
                      !.free_bitmap[(read_idx \div 64) + 1] =
                          set_bit(@, read_idx % 64)]
             c2 == [c1 EXCEPT
                      !.free_bitmap[(write_idx \div 64) + 1] =
                          clear_bit(@, write_idx % 64)]
             mv == Append(moves, <<read_idx, write_idx>>)
             w2 == SkipOccupied(c2, write_idx + 1, read_idx)
         IN  IF w2 >= read_idx
             THEN [chunk |-> c2, moves |-> mv]   \* break
             ELSE CompactLoop(c2, read_idx + 1, w2, end, mv)
    ELSE CompactLoop(c, read_idx + 1, write_idx, end, moves)

\* Chunk::compact: the chunk, the returned count and the callback's calls
Chunk_compact_mut(c) ==
    IF c.count = c.active_count \/ c.count = 0
    THEN [chunk |-> c, ret |-> c.count, moves |-> <<>>]
    ELSE LET r == CompactLoop(c, SkipOccupied(c, 0, c.count) + 1,
                              SkipOccupied(c, 0, c.count), c.count, <<>>)
         IN  [chunk |-> r.chunk, ret |-> r.chunk.count, moves |-> <<>>]
Chunk_compact(c) ==
    IF c.count = c.active_count \/ c.count = 0
    THEN [chunk |-> c, ret |-> c.count, moves |-> <<>>]
    ELSE LET write_idx == SkipOccupied(c, 0, c.count)
         IN  IF write_idx >= c.count
             THEN [chunk |-> c, ret |-> c.count, moves |-> <<>>]
             ELSE LET r   == CompactLoop(c, write_idx + 1, write_idx, c.count, <<>>)
                      occ == {i \in 0..(c.count - 1) : is_occupied(r.chunk, i)}
                      new_count == IF occ = {} THEN 0 ELSE Max(occ) + 1
                  IN  [chunk |-> [r.chunk EXCEPT !.count = new_count],
                       ret |-> new_count,
                       moves |-> r.moves]

\* Chunk::reset
Chunk_reset(c) ==
    [c EXCEPT !.count = 0,
              !.active_count = 0,
              !.free_bitmap = [w \in 1..Len(c.free_bitmap) |->
                                  InitialWord(c.capacity, w - 1)],
              !.data = [i \in 1..c.capacity |-> 0]]

\* utils::next_power_of_2
RECURSIVE PowerOfTwoAtLeast(_, _)
PowerOfTwoAtLeast(n, p) == IF p >= n THEN p ELSE PowerOfTwoAtLeast(n, 2 * p)
next_power_of_2(n) ==
    IF n = 0 THEN 1
    ELSE IF is_power_of_two(n) THEN n
    ELSE PowerOfTwoAtLeast(n, 1)   \* 1 << (BITS - (n - 1).leading_zeros())

\* TARGET_SIMD_BYTES of the build: 32 on x86_64, 16 on aarch64 and elsewhere
TargetSimdBytes == {32, 16}

\* utils::calculate_simd_chunk_size, for a build with that TARGET_SIMD_BYTES
calculate_simd_chunk_size(element_size, alignment, target_simd_bytes) ==
    IF element_size = 0 THEN 1
    ELSE LET elements_per_simd == target_simd_bytes \div element_size
             result == Max({elements_per_simd, 1})
             max_simd_width == IF element_size <= 4 THEN 8
                               ELSE IF element_size <= 8 THEN 4
                               ELSE IF element_size <= 16 THEN 2
                               ELSE 1
         IN  Min({next_power_of_2(result), max_simd_width})

\* the indices of `for i in a..b`, in order
RangeSeq(a, b) == [k \in 1..(IF b > a THEN b - a ELSE 0) |-> a + k - 1]

\* for i in (simd_start..simd_end).step_by(simd_width) { for j in 0..simd_width }
RECURSIVE SimdLoop(_, _, _)
SimdLoop(i, simd_end, simd_width) ==
    IF i >= simd_end THEN <<>>
    ELSE RangeSeq(i, i + simd_width) \o SimdLoop(i + simd_width, simd_end, simd_width)

\* Chunk::process_components_in_range with size_of::<T>() = element_size:
\* the indices the processor is called with, in call order
process_components_in_range(c, start, end, element_size, target_simd_bytes) ==
    LET real_end == Min({end, c.count})
    IN  IF start >= real_end THEN <<>>
        ELSE LET simd_width == calculate_simd_chunk_size(element_size, c.alignment,
                                                         target_simd_bytes)
             IN  IF simd_width > 1 /\ c.count = c.active_count
                 THEN LET simd_start == align_up(start, simd_width)
                          \* real_end & !(simd_width - 1)
                          simd_end   == real_end - (real_end % simd_width)
                      IN  RangeSeq(start, Min({simd_start, real_end}))
                            \o SimdLoop(simd_start, simd_end, simd_width)
                            \o RangeSeq(simd_end, real_end)
                 ELSE SelectSeq(RangeSeq(start, real_end),
                                LAMBDA i : is_occupied(c, i))

(***************************************************************************)
(* component_pool.rs: ComponentPool<T>                                     *)
(* index_map is a Vec<(usize, usize)>: position k + 1 holds global index k *)
(* overflow_chunks[i] (position i + 1) is chunk_index i + 1.               *)
(***************************************************************************)
ComponentLocation(ci, xi) == [chunk_index |-> ci, component_index |-> xi]
NoLocation      == [some |-> FALSE, val |-> ComponentLocation(0, 0)]
SomeLocation(l) == [some |-> TRUE, val |-> l]

\* the "deleted" marker of the index table
DELETED == <<USIZE_MAX, USIZE_MAX>>

\* ComponentPool::new
PoolOn(c, components_per_chunk, chunks_per_pool) ==
    [arena |-> c.arena,
     pool  |-> [primary_chunk |-> c.ret,
                overflow_chunks |-> <<>>,
                component_count |-> 0,
                active_component_count |-> 0,
                index_map |-> <<>>,
                components_per_chunk |-> components_per_chunk,
                max_chunks |-> chunks_per_pool,
                needs_compaction |-> FALSE]]

Pool_new(a, components_per_chunk, chunks_per_pool) ==
    LET primary_chunk_size == components_per_chunk * 2
    IN  PoolOn(Chunk_new(a, primary_chunk_size), components_per_chunk,
               chunks_per_pool)

\* ComponentPool::update_index_map
update_index_map(p, location, global_index) ==
    LET resized == IF global_index >= Len(p.index_map)
                   THEN [k \in 1..(global_index + 1) |->
                            IF k <= Len(p.index_map) THEN p.index_map[k]
                            ELSE <<0, 0>>]
                   ELSE p.index_map
    IN  [p EXCEPT !.index_map =
            [resized EXCEPT ![global_index + 1] =
                <<location.chunk_index, location.component_index>>]]

\* the counters and the index table after a slot was obtained at `location`
RecordAllocation_mut(p, location) ==
    [p EXCEPT !.component_count = @ + 1, !.active_component_count = @ + 1]
RecordAllocation(p, location) ==
    LET p1 == [p EXCEPT !.component_count = @ + 1,
                        !.active_component_count = @ + 1]
    IN  update_index_map(p1, location, p1.component_count - 1)

\* the first overflow chunk (position) with room, 0 when none
FirstOverflowWithRoom(p) ==
    LET S == {i \in 1..Len(p.overflow_chunks) :
                 Chunk_allocate_component(p.overflow_chunks[i]).ret.some}
    IN  IF S = {} THEN 0 ELSE Min(S)

\* the last branch of allocate_component: n is the new overflow chunk (None
\* when max_chunks is reached or Chunk::new failed) after Chunk::new
AllocateInNewChunk(p, n) ==
    IF n.ret.some
    THEN LET r == Chunk_allocate_component(n.ret.val)
             chunk_idx == Len(p.overflow_chunks)
             location == ComponentLocation(chunk_idx + 1, r.ret.val)
             p1 == RecordAllocation(
                      [p EXCEPT !.overflow_chunks = Append(@, r.chunk)],
                      location)
         IN  IF ~r.ret.some
             THEN \* new_chunk.allocate_component().unwrap() panics
                  [pool |-> p, arena |-> n.arena, ret |-> NoLocation,
                   panic |-> TRUE]
             ELSE [pool  |-> IF Len(p1.overflow_chunks) > 1
                             THEN [p1 EXCEPT !.needs_compaction = TRUE]
                             ELSE p1,
                   arena |-> n.arena,
                   ret   |-> SomeLocation(location),
                   panic |-> FALSE]
    ELSE [pool  |-> [p EXCEPT !.needs_compaction = TRUE],
          arena |-> n.arena, ret |-> NoLocation, panic |-> FALSE]

\* ComponentPool::allocate_component: the pool, the arena, the location (or
\* None) and whether the call panicked (unwrap of None)
Pool_allocate_component(p, a) ==
    LET prim == IF p.primary_chunk.some
                THEN Chunk_allocate_component(p.primary_chunk.val)
                ELSE [chunk |-> EmptyChunk, ret |-> None]
        ov   == FirstOverflowWithRoom(p)
    IN  IF prim.ret.some
        THEN LET location == ComponentLocation(0, prim.ret.val)
             IN  [pool  |-> RecordAllocation(
                               [p EXCEPT !.primary_chunk = SomeChunk(prim.chunk)],
                               location),
                  arena |-> a, ret |-> SomeLocation(location), panic |-> FALSE]
        ELSE IF ov # 0
        THEN LET r == Chunk_allocate_component(p.overflow_chunks[ov])
                 location == ComponentLocation(ov, r.ret.val)
             IN  [pool  |-> RecordAllocation(
                               [p EXCEPT !.overflow_chunks[ov] = r.chunk],
                               location),
                  arena |-> a, ret |-> SomeLocation(location), panic |-> FALSE]
        ELSE AllocateInNewChunk(p,
                 IF Len(p.overflow_chunks) < p.max_chunks
                 THEN Chunk_new(a, p.components_per_chunk)
                 ELSE [arena |-> a, ret |-> NoChunk])

\* ComponentPool::check_compaction_needed:
\* 1.0 - active / count > COMPACTION_THRESHOLD (0.3), in tenths:
\* 10 * (count - active) > 3 * count
check_compaction_needed(p) ==
    IF p.active_component_count < p.component_count
       /\ 10 * (p.component_count - p.active_component_count)
            > 3 * p.component_count
    THEN [p EXCEPT !.needs_compaction = TRUE]
    ELSE p

\* the index table with the first entry equal to the location marked deleted
MarkDeleted_mut(index_map, location) == index_map
MarkDeleted(index_map, location) ==
    LET S == {i \in 1..Len(index_map) :
                 index_map[i] = <<location.chunk_index, location.component_index>>}
    IN  IF S = {} THEN index_map
        ELSE [index_map EXCEPT ![Min(S)] = DELETED]

\* ComponentPool::free_component
Pool_free_component(p, location) ==
    LET dec(n) == IF n > 0 THEN n - 1 ELSE n
        p1 == IF location.chunk_index = 0
              THEN IF p.primary_chunk.some
                   THEN [p EXCEPT
                           !.primary_chunk.val =
                               Chunk_free_component(@, location.component_index),
                           !.active_component_count = dec(@)]
                   ELSE p
              ELSE LET overflow_index == location.chunk_index - 1
                   IN  IF overflow_index < Len(p.overflow_chunks)
                       THEN [p EXCEPT
                               !.overflow_chunks[overflow_index + 1] =
                                   Chunk_free_component(@, location.component_index),
                               !.active_component_count = dec(@)]
                       ELSE p
    IN  check_compaction_needed(
            [p1 EXCEPT !.index_map = MarkDeleted(@, location)])

\* the chunk a chunk_index names: 0 the primary, i the overflow chunk i - 1
ChunkAt(p, chunk_index) ==
    IF chunk_index = 0 THEN p.primary_chunk
    ELSE IF chunk_index - 1 < Len(p.overflow_chunks)
         THEN SomeChunk(p.overflow_chunks[chunk_index])
         ELSE NoChunk

\* ComponentPool::set_component
set_component(p, location, value) ==
    IF location.chunk_index = 0
    THEN [p EXCEPT !.primary_chunk.val =
                      write_component(@, location.component_index, value)]
    ELSE [p EXCEPT !.overflow_chunks[location.chunk_index] =
                      write_component(@, location.component_index, value)]

\* ComponentPool::get_component: the value read.  fault: the call panics (no
\* primary chunk, overflow index out of bounds), or it reads a slot that is
\* not occupied (the debug assertion of Chunk::get_component fails; without
\* debug assertions the slot's memory is read) or lies past the capacity
get_component(p, location) ==
    LET c == ChunkAt(p, location.chunk_index)
    IN  IF c.some /\ location.component_index < c.val.capacity
        THEN [val |-> c.val.data[location.component_index + 1],
              fault |-> ~is_occupied(c.val, location.component_index)]
        ELSE [val |-> 0, fault |-> TRUE]

\* ComponentPool::get_component_mut: reads as get_component does
get_component_mut(p, location) == get_component(p, location)

\* the answer of a lookup that returned before get_component
NotFound == [some |-> FALSE, val |-> 0, fault |-> FALSE, slot_read |-> FALSE]

\* ComponentPool::get_component_by_index.  slot_read: the call went on to
\* get_component, that is, to a chunk slot
get_component_by_index(p, global_index) ==
    IF global_index >= Len(p.index_map)
    THEN NotFound
    ELSE LET e == p.index_map[global_index + 1]
         IN  IF e[1] = USIZE_MAX
             THEN NotFound
             ELSE LET g == get_component(p, ComponentLocation(e[1], e[2]))
                  IN  [some |-> TRUE, val |-> g.val, fault |-> g.fault,
                       slot_read |-> TRUE]

\* ComponentPool::get_component_by_index_mut
get_component_by_index_mut(p, global_index) ==
    IF global_index >= Len(p.index_map)
    THEN NotFound
    ELSE LET e == p.index_map[global_index + 1]
         IN  IF e[1] = USIZE_MAX
             THEN NotFound
             ELSE LET g == get_component_mut(p, ComponentLocation(e[1], e[2]))
                  IN  [some |-> TRUE, val |-> g.val, fault |-> g.fault,
                       slot_read |-> TRUE]

\* the loop of compact over the live entries, from the i-th (0-based) on:
\* live is the list of (global index, location) collected before the loop
RECURSIVE MoveLoop(_, _, _, _, _, _)
MoveLoop(p, live, i, new_primary, index_map, relocation_map) ==
    IF i >= Len(live)
    THEN [new_primary |-> new_primary, index_map |-> index_map,
          relocation_map |-> relocation_map]
    ELSE LET location   == live[i + 1].location
             global_idx == live[i + 1].global_idx
             r          == Chunk_allocate_component(new_primary)
             src        == ChunkAt(p, location.chunk_index)
         IN  IF ~r.ret.some
             THEN MoveLoop(p, live, i + 1, new_primary, index_map, relocation_map)
             ELSE IF ~src.some
             THEN \* continue: the slot stays allocated in the new chunk
                  MoveLoop(p, live, i + 1, r.chunk, index_map, relocation_map)
             ELSE MoveLoop(p, live, i + 1,
                      write_component(r.chunk, r.ret.val,
                                      src.val.data[location.component_index + 1]),
                      [index_map EXCEPT ![global_idx + 1] = <<0, r.ret.val>>],
                      Append(relocation_map, <<global_idx, i>>))

\* the non-deleted entries of the index table, in index order
RECURSIVE LiveEntries(_, _)
LiveEntries(index_map, k) ==
    IF k > Len(index_map) THEN <<>>
    ELSE IF index_map[k][1] # USIZE_MAX
         THEN <<[global_idx |-> k - 1,
                 location |-> ComponentLocation(index_map[k][1], index_map[k][2])]>>
              \o LiveEntries(index_map, k + 1)
         ELSE LiveEntries(index_map, k + 1)

\* compact once Chunk::new answered n for the new primary chunk
CompactInto_mut(p, n) ==
    IF n.ret.some
    THEN LET m == MoveLoop(p, LiveEntries(p.index_map, 1), 0, n.ret.val,
                           p.index_map, <<>>)
         IN  [pool |-> [p EXCEPT
                          !.primary_chunk = SomeChunk(m.new_primary),
                          !.overflow_chunks = <<>>,
                          !.component_count = p.active_component_count,
                          !.needs_compaction = FALSE],
              arena |-> n.arena,
              ret |-> m.relocation_map]
    ELSE [pool |-> [p EXCEPT !.needs_compaction = FALSE],
          arena |-> n.arena, ret |-> <<>>]
CompactInto(p, n) ==
    IF n.ret.some
    THEN LET m == MoveLoop(p, LiveEntries(p.index_map, 1), 0, n.ret.val,
                           p.index_map, <<>>)
         IN  [pool |-> [p EXCEPT
                          !.primary_chunk = SomeChunk(m.new_primary),
                          !.overflow_chunks = <<>>,
                          !.index_map = m.index_map,
                          !.component_count = p.active_component_count,
                          !.needs_compaction = FALSE],
              arena |-> n.arena,
              ret |-> m.relocation_map]
    ELSE [pool |-> [p EXCEPT !.needs_compaction = FALSE],
          arena |-> n.arena, ret |-> <<>>]

\* A compaction that hands the arena back before building the new chunk
Pool_compact_mut(p, a) ==
    IF ~p.needs_compaction \/ p.active_component_count = 0
    THEN [pool |-> [p EXCEPT !.needs_compaction = FALSE], arena |-> a,
          ret |-> <<>>]
    ELSE CompactInto(p, Chunk_new(Arena_reset(a),
                                  (p.active_component_count * 3) \div 2))

\* ComponentPool::compact: the pool, the arena and the relocation map
Pool_compact(p, a) ==
    IF ~p.needs_compaction \/ p.active_component_count = 0
    THEN [pool |-> [p EXCEPT !.needs_compaction = FALSE], arena |-> a,
          ret |-> <<>>]
    ELSE \* (active_component_count as f32 * 1.5) as usize
         CompactInto(p, Chunk_new(a, (p.active_component_count * 3) \div 2))

\* ComponentPool::fragmentation_ratio > COMPACTION_THRESHOLD (0.3), in
\* tenths; the ratio is 0.0 when component_count is 0
FragmentationAboveThreshold(p) ==
    /\ p.component_count # 0
    /\ 10 * (p.component_count - p.active_component_count)
         > 3 * p.component_count

\* ComponentPool::reset
Pool_reset(p) ==
    [p EXCEPT !.primary_chunk.val = IF p.primary_chunk.some
                                    THEN Chunk_reset(@) ELSE @,
              !.overflow_chunks = [i \in 1..Len(@) |-> Chunk_reset(@[i])],
              !.component_count = 0,
              !.active_component_count = 0,
              !.index_map = <<>>,
              !.needs_compaction = FALSE]

\* ComponentPool::process_components_in_range: the global indices handed to
\* the processor, in call order
RECURSIVE ProcessLoop(_, _, _)
ProcessLoop(p, global_idx, real_end) ==
    IF global_idx >= real_end THEN <<>>
    ELSE LET e == p.index_map[global_idx + 1]
             c == ChunkAt(p, e[1])
             handed ==
                 /\ global_idx < Len(p.index_map)
                 /\ e[1] # USIZE_MAX
                 /\ c.some
                 /\ e[2] < c.val.count
                 /\ is_occupied(c.val, e[2])
         IN  (IF handed THEN <<global_idx>> ELSE <<>>)
                \o ProcessLoop(p, global_idx + 1, real_end)

Pool_process_components_in_range(p, start, end) ==
    IF start >= p.component_count \/ start >= end
    THEN <<>>
    ELSE ProcessLoop(p, start, Min({end, p.component_count}))

(***************************************************************************)
(* SpecArena: one Arena under allocate / free of live allocations / reset  *)
(***************************************************************************)
\* bytes asked of Arena::new
ArenaRequestBytes == 257
\* the (size, align) requests; align is a power of two (debug_assert)
AllocSizes  == {0, 32, 64, 128}
AllocAligns == {1, 128}

NoCall == [op |-> "new", size |-> 0, align |-> 1, offset |-> 0,
           ok |-> TRUE, path |-> "none"]

Range(o, s) == [offset |-> o, size |-> s]

ArenaAllocate ==
    /\ \E size \in AllocSizes :
       \E align \in (IF size = 0 THEN {1} ELSE AllocAligns) :
          LET r == Arena_allocate(arena, size, align)
          IN  /\ arena' = r.arena
              /\ arena_live' = IF r.ret.some /\ size > 0
                               THEN arena_live (+) SetToBag({Range(r.ret.val, size)})
                               ELSE arena_live
              /\ arena_ret' = [op |-> "allocate", size |-> size, align |-> align,
                               offset |-> r.ret.val, ok |-> r.ret.some,
                               path |-> r.path]
    /\ UNCHANGED <<fbmVars, chunkVars, poolVars, utilVars>>

\* free(ptr, size) of a live allocation, with the size it was allocated with
ArenaFree ==
    /\ \E b \in BagToSet(arena_live) :
          /\ arena' = Arena_free(arena, b.offset, b.size)
          /\ arena_live' = arena_live (-) SetToBag({b})
          /\ arena_ret' = [op |-> "free", size |-> b.size, align |-> 1,
                           offset |-> b.offset, ok |-> TRUE,
                           path |-> IF b.offset + b.size = arena.cursor
                                    THEN "tail" ELSE "list"]
    /\ UNCHANGED <<fbmVars, chunkVars, poolVars, utilVars>>

\* reset() ends the life of every allocation
ArenaReset ==
    /\ arena' = Arena_reset(arena)
    /\ arena_live' = EmptyBag
    /\ arena_ret' = [NoCall EXCEPT !.op = "reset"]
    /\ UNCHANGED <<fbmVars, chunkVars, poolVars, utilVars>>

NextArena == ArenaAllocate \/ ArenaFree \/ ArenaReset

(***************************************************************************)
(* Arena claims                                                            *)
(***************************************************************************)
AllocOk == arena_ret.op = "allocate" /\ arena_ret.ok /\ arena_ret.size > 0

\* C3: every successful allocate(size, align) with size > 0, on the bump path
\* and on the free-list path, returns an offset that is a multiple of align
\* and whose range ends at or below capacity.
C3_AllocAlignedInBounds ==
    AllocOk => /\ arena_ret.offset % arena_ret.align = 0
               /\ arena_ret.offset + arena_ret.size <= arena.capacity

\* an aligned allocation served from a free block, behind alignment padding
C3_Witness ==
    /\ AllocOk
    /\ arena_ret.path = "freelist"
    /\ arena_ret.align = 128
    /\ arena_ret.offset > 0
    /\ \E i \in 1..Len(arena.free_blocks) :
          arena.free_blocks[i].offset + arena.free_blocks[i].size = arena_ret.offset

LiveRanges == BagToSet(arena_live)
Overlap(a, b) == a.offset < b.offset + b.size /\ b.offset < a.offset + a.size

RECURSIVE SumSizes(_)
SumSizes(S) ==
    IF S = {} THEN 0
    ELSE LET x == CHOOSE y \in S : TRUE
         IN  x.size * CopiesIn(x, arena_live) + SumSizes(S \ {x})

\* C4: with every free releasing a live allocation, the live allocated ranges
\* are pairwise disjoint (no range is handed out twice) and the sum of their
\* sizes never exceeds capacity.
C4_LiveDisjoint ==
    /\ \A a \in LiveRanges : CopiesIn(a, arena_live) = 1
    /\ \A a, b \in LiveRanges : a # b => ~Overlap(a, b)
    /\ SumSizes(LiveRanges) <= arena.capacity

\* an allocation served from the free list next to other live allocations
C4_Witness ==
    /\ AllocOk
    /\ arena_ret.path = "freelist"
    /\ Cardinality(LiveRanges) >= 3
    /\ arena.free_blocks # <<>>

FitsSomeBlock(a, size, align) ==
    \E i \in 1..Len(a.free_blocks) :
        LET b == a.free_blocks[i]
        IN  b.size >= size + (aligned_addr(b.offset, align) - b.offset)
FitsBump(a, size, align) == aligned_addr(a.cursor, align) + size <= a.capacity

\* C5: allocate returns None only when the request fits neither in a tracked
\* free block (with its alignment padding) nor between the aligned cursor and
\* capacity.  (A failed allocate leaves the arena as it was, so the arena after
\* the call is the arena the request was made of.)
C5_NoneOnlyWhenNoRoom ==
    (arena_ret.op = "allocate" /\ ~arena_ret.ok)
        => /\ ~FitsSomeBlock(arena, arena_ret.size, arena_ret.align)
           /\ ~FitsBump(arena, arena_ret.size, arena_ret.align)

Covered(a, offset, size) ==
    \A x \in offset..(offset + size - 1) :
        \/ x >= a.cursor
        \/ \E i \in 1..Len(a.free_blocks) :
              /\ a.free_blocks[i].offset <= x
              /\ x < a.free_blocks[i].offset + a.free_blocks[i].size

Kept(fb, offset, size) ==
    \/ MergeFirst(fb, offset, size).merged
    \/ Len(fb) < MAX_FREE_BLOCKS
    \/ \E i \in 1..Len(fb) : size > fb[i].size

BlockFits(b, size, align) ==
    b.size >= size + (aligned_addr(b.offset, align) - b.offset)

\* the tracked block i is the one an allocate answering ret was served from
ServedFrom(fb, i, ret) ==
    /\ BlockFits(fb[i], ret.size, ret.align)
    /\ aligned_addr(fb[i].offset, ret.align) = ret.offset

FreeListServed(ret) ==
    ret.op = "allocate" /\ ret.path = "freelist" /\ ret.ok

Slack(b, size, align) ==
    b.size - (size + (aligned_addr(b.offset, align) - b.offset))

C32_NoBlockEndsAtCursor ==
    arena_ret.op = "free"
        => \A i \in 1..Len(arena.free_blocks) :
              arena.free_blocks[i].offset + arena.free_blocks[i].size
                # arena.cursor

\* C33: after any sequence of allocate / free / reset in which only live
\* allocations are freed, cursor <= capacity, every tracked free block lies
\* within [0, cursor), tracked free blocks are pairwise disjoint, and no
\* tracked free block overlaps a live allocation.
C33_FreeListWellFormed ==
    /\ arena.cursor <= arena.capacity
    /\ \A i \in 1..Len(arena.free_blocks) :
          LET b == arena.free_blocks[i]
          IN  /\ b.offset >= 0
              /\ b.offset + b.size <= arena.cursor
              /\ \A j \in 1..Len(arena.free_blocks) :
                    i # j => ~Overlap(b, arena.free_blocks[j])
              /\ \A l \in BagToSet(arena_live) : ~Overlap(b, l)

\* two free blocks are tracked around a live allocation, below the cursor
C33_Witness ==
    /\ Len(arena.free_blocks) >= 2
    /\ \E l \in BagToSet(arena_live) :
       \E i, j \in 1..Len(arena.free_blocks) :
          /\ arena.free_blocks[i].offset + arena.free_blocks[i].size <= l.offset
          /\ l.offset + l.size <= arena.free_blocks[j].offset
    /\ arena_ret.op = "allocate" /\ arena_ret.path = "freelist" /\ arena_ret.ok

\* C34: an allocate that returns None leaves the cursor and the free list
\* unchanged, and allocate with size 0 returns the base pointer without
\* changing any arena state.
C34_FailedAllocateChangesNothing ==
    [][ arena_ret'.op = "allocate"
          => /\ ~arena_ret'.ok => arena' = arena
             /\ arena_ret'.size = 0
                  => /\ arena_ret'.ok
                     /\ arena_ret'.offset = 0
                     /\ arena' = arena ]_vars

\* an allocate failed on the bump path of an arena in use, with a cursor
\* that the requested alignment would have moved
C34_Witness ==
    /\ arena_ret.op = "allocate"
    /\ ~arena_ret.ok
    /\ arena_ret.path = "bump"
    /\ arena.cursor > 0
    /\ aligned_addr(arena.cursor, arena_ret.align) > arena.cursor

(***************************************************************************)
(* SpecFBM: one MemFreeBlockMaster over the addresses 0..FbmSpace under    *)
(* insert (of a block disjoint from every tracked block), allocate and     *)
(* find_best_fit                                                           *)
(***************************************************************************)
FbmSpace == 4
\* the largest size asked of allocate and find_best_fit
FbmMaxRequest == 3

\* left / right: the inserted block touched a tracked block on that side
\* twin_same: the same call on fbm_twin returned the same
NoFbmCall == [op |-> "new", left |-> FALSE, right |-> FALSE, n |-> 0,
              ok |-> TRUE, val |-> 0, block |-> MemFreeBlock(0, 0),
              twin_same |-> TRUE]

BlocksOverlap(a, b) == a.start < b.end /\ b.start < a.end

FbmInsert ==
    /\ \E s \in 0..(FbmSpace - 1) : \E e \in (s + 1)..FbmSpace :
          /\ \A t \in Tracked(fbm) : ~BlocksOverlap(t, MemFreeBlock(s, e))
          /\ fbm' = FBM_insert(fbm, MemFreeBlock(s, e))
          /\ fbm_ret' = [NoFbmCall EXCEPT
                            !.op = "insert",
                            !.left = \E t \in Tracked(fbm) : t.end = s,
                            !.right = \E t \in Tracked(fbm) : t.start = e]
    /\ UNCHANGED <<fbm_twin, arenaVars, chunkVars, poolVars, utilVars>>

FbmAllocate ==
    /\ \E n \in 0..FbmMaxRequest :
          LET r == FBM_allocate(fbm, n)
          IN  /\ fbm' = r.fbm
              /\ fbm_ret' = [NoFbmCall EXCEPT !.op = "allocate", !.n = n,
                                !.ok = r.ret.some, !.val = r.ret.val]
    /\ UNCHANGED <<fbm_twin, arenaVars, chunkVars, poolVars, utilVars>>

FbmFindBestFit ==
    /\ \E n \in 0..FbmMaxRequest :
          LET r == find_best_fit(fbm, n)
          IN  /\ fbm' = fbm
              /\ fbm_ret' = [NoFbmCall EXCEPT !.op = "find_best_fit", !.n = n,
                                !.ok = r.some,
                                !.block = IF r.some THEN r.val
                                          ELSE MemFreeBlock(0, 0)]
    /\ UNCHANGED <<fbm_twin, arenaVars, chunkVars, poolVars, utilVars>>

NextFBM == FbmInsert \/ FbmAllocate \/ FbmFindBestFit

(***************************************************************************)
(* MemFreeBlockMaster claims                                               *)
(***************************************************************************)
\* C7: after any sequence of insert (of blocks disjoint from every tracked
\* block) and allocate, the tracked free blocks are pairwise disjoint and
\* non-adjacent (no tracked block's end is another's start), and len() equals
\* their number.
C7_DisjointNonAdjacent ==
    /\ \A a, b \in Tracked(fbm) :
          a # b => /\ ~BlocksOverlap(a, b)
                   /\ a.end # b.start
    /\ \A a \in Tracked(fbm) : a.start < a.end
    /\ FBM_len(fbm) = Cardinality(Tracked(fbm))
    /\ FBM_len(fbm) = Cardinality(TrackedIdx(fbm))

\* the inserted block touched tracked blocks on both sides and exactly one
\* block, spanning all three, is tracked (two internal slots fell vacant, one
\* was taken again)
C7_Witness ==
    /\ fbm_ret.op = "insert"
    /\ fbm_ret.left /\ fbm_ret.right
    /\ FBM_len(fbm) = 1
    /\ \E t \in Tracked(fbm) : BlockSize(t) >= 3
    /\ Len(fbm.free_ind) = 1

FitSizes(f, n) == {BlockSize(b) : b \in {t \in Tracked(f) : BlockSize(t) >= n}}

\* C8: find_best_fit(n) and allocate(n) with n > 0 select a tracked block
\* whose size is the minimum of the tracked sizes >= n, and return None
\* exactly when no tracked block has size >= n.
C8_BestFit ==
    [][ /\ (fbm_ret'.op = "find_best_fit" /\ fbm_ret'.n > 0)
            => /\ fbm_ret'.ok <=> FitSizes(fbm, fbm_ret'.n) # {}
               /\ fbm_ret'.ok
                    => /\ fbm_ret'.block \in Tracked(fbm)
                       /\ BlockSize(fbm_ret'.block) = Min(FitSizes(fbm, fbm_ret'.n))
        /\ (fbm_ret'.op = "allocate" /\ fbm_ret'.n > 0)
            => /\ fbm_ret'.ok <=> FitSizes(fbm, fbm_ret'.n) # {}
               /\ fbm_ret'.ok
                    => \E b \in Tracked(fbm) :
                          /\ b.start = fbm_ret'.val
                          /\ BlockSize(b) = Min(FitSizes(fbm, fbm_ret'.n))
                          /\ b \notin Tracked(fbm') ]_vars

\* a request that passed over a tracked block too small for it while a fit
\* larger than the returned one was tracked as well: the smaller fit is returned
C8_Witness ==
    /\ fbm_ret.op = "find_best_fit"
    /\ fbm_ret.ok
    /\ fbm_ret.n > 0
    /\ \E b \in Tracked(fbm) : BlockSize(b) > BlockSize(fbm_ret.block)
    /\ FBM_len(fbm) >= 2

\* C9: a successful allocate(n) on the chosen block [s, e) returns s, then
\* tracks the remainder [s+n, e) exactly when e - s > n, tracks no byte of
\* [s, s+n), and total_free_size() has dropped by exactly n; an allocate that
\* returns None leaves the tracked set unchanged.
C9_AllocateRemainder ==
    [][ fbm_ret'.op = "allocate"
          => IF fbm_ret'.ok
             THEN \E b \in Tracked(fbm) :
                    /\ b.start = fbm_ret'.val
                    /\ Tracked(fbm') =
                         (Tracked(fbm) \ {b})
                           \cup (IF BlockSize(b) > fbm_ret'.n
                                 THEN {MemFreeBlock(b.start + fbm_ret'.n, b.end)}
                                 ELSE {})
                    /\ \A t \in Tracked(fbm') :
                          ~BlocksOverlap(t, MemFreeBlock(b.start, b.start + fbm_ret'.n))
                    /\ total_free_size(fbm') = total_free_size(fbm) - fbm_ret'.n
                    /\ FBM_len(fbm') = Cardinality(Tracked(fbm'))
             ELSE /\ Tracked(fbm') = Tracked(fbm)
                  /\ total_free_size(fbm') = total_free_size(fbm) ]_vars

\* an allocate that took the front of a larger block: the remainder, starting
\* where the returned range ends, is tracked
C9_Witness ==
    /\ fbm_ret.op = "allocate"
    /\ fbm_ret.ok
    /\ fbm_ret.n > 0
    /\ \E t \in Tracked(fbm) : t.start = fbm_ret.val + fbm_ret.n

(***************************************************************************)
(* SpecFBMDefrag: fbm under insert, allocate and defragment; fbm_twin is   *)
(* given the same insert and allocate calls and never a defragment.        *)
(***************************************************************************)
FbmTwinInsert ==
    /\ \E s \in 0..(FbmSpace - 1) : \E e \in (s + 1)..FbmSpace :
          /\ \A t \in Tracked(fbm) : ~BlocksOverlap(t, MemFreeBlock(s, e))
          /\ fbm' = FBM_insert(fbm, MemFreeBlock(s, e))
          /\ fbm_twin' = FBM_insert(fbm_twin, MemFreeBlock(s, e))
          /\ fbm_ret' = [NoFbmCall EXCEPT !.op = "insert"]
    /\ UNCHANGED <<arenaVars, chunkVars, poolVars, utilVars>>

FbmTwinAllocate ==
    /\ \E n \in 0..FbmMaxRequest :
          \E r \in {FBM_allocate(fbm, n)} :
          \E t \in {FBM_allocate(fbm_twin, n)} :
              /\ fbm' = r.fbm
              /\ fbm_twin' = t.fbm
              /\ fbm_ret' = [NoFbmCall EXCEPT !.op = "allocate",
                                !.ok = r.ret.some,
                                !.twin_same = (t.ret = r.ret)]
    /\ UNCHANGED <<arenaVars, chunkVars, poolVars, utilVars>>

FbmDefragment ==
    /\ fbm' = FBM_defragment(fbm)
    /\ fbm_ret' = [NoFbmCall EXCEPT !.op = "defragment"]
    /\ UNCHANGED <<fbm_twin, arenaVars, chunkVars, poolVars, utilVars>>

NextFBMDefrag == FbmTwinInsert \/ FbmTwinAllocate \/ FbmDefragment

\* C40: defragment preserves the tracked blocks, len() and total_free_size()
\* and leaves free_slots == 0 and total_blocks == active_blocks; in every
\* state total_blocks == active_blocks + free_slots, and insert grows blocks
\* only when no slot is vacant; and every insert / allocate after a
\* defragment returns and tracks what it does on the twin that was never
\* defragmented.
C40_DefragmentTransparent ==
    /\ get_memory_stats(fbm).total_blocks
          = get_memory_stats(fbm).active_blocks + get_memory_stats(fbm).free_slots
    /\ fbm_ret.op = "defragment" =>
          /\ get_memory_stats(fbm).free_slots = 0
          /\ get_memory_stats(fbm).total_blocks
                = get_memory_stats(fbm).active_blocks
    /\ Tracked(fbm) = Tracked(fbm_twin)
    /\ FBM_len(fbm) = FBM_len(fbm_twin)
    /\ FBM_len(fbm) = Cardinality(Tracked(fbm))
    /\ total_free_size(fbm) = total_free_size(fbm_twin)
    /\ fbm_ret.twin_same
    /\ \A n \in 0..FbmMaxRequest :
          find_best_fit(fbm, n) = find_best_fit(fbm_twin, n)
    /\ \A s \in 0..(FbmSpace - 1) : \A e \in (s + 1)..FbmSpace :
          (\A t \in Tracked(fbm) : ~BlocksOverlap(t, MemFreeBlock(s, e)))
            => Len(FBM_insert(fbm, MemFreeBlock(s, e)).blocks)
                 = IF try_merge_remove(fbm, MemFreeBlock(s, e)).fbm.free_ind
                        # <<>>
                   THEN Len(fbm.blocks)
                   ELSE Len(fbm.blocks) + 1

\* an allocate served after a defragment that had closed vacant slots: the
\* two masters hold their blocks at different indices
C40_Witness ==
    /\ fbm_ret.op = "allocate"
    /\ fbm_ret.ok
    /\ fbm.blocks # fbm_twin.blocks
    /\ Tracked(fbm) # {}

(***************************************************************************)
(* SpecChunk: one Chunk<T> of a capacity 0..MaxChunkCapacity under         *)
(* allocate_component / write_component / free_component / compact / reset *)
(***************************************************************************)
MaxChunkCapacity == 3
\* the component values written: 1..ChunkValues
ChunkValues == 2

NoChunkCall == [op |-> "new", index |-> 0, ok |-> TRUE, val |-> 0, moves |-> <<>>,
                start |-> 0, end |-> 0, simd_width |-> 1, visited |-> <<>>]

ChunkAllocate ==
    /\ LET r == Chunk_allocate_component(chunk)
       IN  /\ chunk' = r.chunk
           /\ chunk_ret' = [NoChunkCall EXCEPT !.op = "allocate_component",
                               !.ok = r.ret.some, !.val = r.ret.val]
    /\ UNCHANGED <<arenaVars, fbmVars, poolVars, utilVars>>

\* write_component to an occupied slot
ChunkWrite ==
    /\ \E index \in 0..(chunk.capacity - 1) : \E v \in 1..ChunkValues :
          /\ is_occupied(chunk, index)
          /\ chunk' = write_component(chunk, index, v)
          /\ chunk_ret' = [NoChunkCall EXCEPT !.op = "write_component",
                              !.index = index, !.val = v]
    /\ UNCHANGED <<arenaVars, fbmVars, poolVars, utilVars>>

\* free_component of any index, also one past the capacity
ChunkFree ==
    /\ \E index \in 0..chunk.capacity :
          /\ chunk' = Chunk_free_component(chunk, index)
          /\ chunk_ret' = [NoChunkCall EXCEPT !.op = "free_component",
                              !.index = index,
                              !.ok = is_occupied(chunk, index)]
    /\ UNCHANGED <<arenaVars, fbmVars, poolVars, utilVars>>

ChunkCompact ==
    /\ LET r == Chunk_compact(chunk)
       IN  /\ chunk' = r.chunk
           /\ chunk_ret' = [NoChunkCall EXCEPT !.op = "compact",
                               !.val = r.ret, !.moves = r.moves]
    /\ UNCHANGED <<arenaVars, fbmVars, poolVars, utilVars>>

ChunkReset ==
    /\ chunk' = Chunk_reset(chunk)
    /\ chunk_ret' = [NoChunkCall EXCEPT !.op = "reset"]
    /\ UNCHANGED <<arenaVars, fbmVars, poolVars, utilVars>>

NextChunk == ChunkAllocate \/ ChunkWrite \/ ChunkFree \/ ChunkCompact \/ ChunkReset

(***************************************************************************)
(* Chunk claims                                                            *)
(***************************************************************************)
\* bit i of the bitmap, read directly
BitOf(c, i) ==
    /\ i \div 64 < Len(c.free_bitmap)
    /\ (i % 64) \in c.free_bitmap[(i \div 64) + 1]

Occupied(c) == {i \in 0..(c.capacity - 1) : is_occupied(c, i)}

\* C10: after any sequence of allocate_component, free_component, compact and
\* reset, active_count <= count <= capacity, is_occupied(i) is true exactly
\* when i < count and bitmap bit i is 0, and active_count is the number of
\* occupied slots.
C10_ChunkOccupancy ==
    /\ chunk.active_count <= chunk.count
    /\ chunk.count <= chunk.capacity
    /\ \A i \in 0..chunk.capacity :
          is_occupied(chunk, i) <=> (i < chunk.count /\ ~BitOf(chunk, i))
    /\ chunk.active_count = Cardinality(Occupied(chunk))

\* a compaction that moved a record and lowered count, with a record left
C10_Witness ==
    /\ chunk_ret.op = "compact"
    /\ chunk_ret.moves # <<>>
    /\ chunk.active_count > 0
    /\ chunk.count < chunk.capacity

\* the freed slots below count: bitmap bit set
Freed(c) == {i \in 0..(c.count - 1) : BitOf(c, i)}

\* C11: when the chunk has a freed slot below count, allocate_component
\* returns the lowest-indexed freed slot and leaves count unchanged; only when
\* there is no freed slot and count < capacity does it return slot number
\* count and increment count.
C11_ReuseLowestFreed ==
    [][ chunk_ret'.op = "allocate_component"
          => IF Freed(chunk) # {}
             THEN /\ chunk_ret'.ok
                  /\ chunk_ret'.val = Min(Freed(chunk))
                  /\ chunk'.count = chunk.count
             ELSE IF chunk.count < chunk.capacity
             THEN /\ chunk_ret'.ok
                  /\ chunk_ret'.val = chunk.count
                  /\ chunk'.count = chunk.count + 1
             ELSE /\ ~chunk_ret'.ok
                  /\ chunk'.count = chunk.count ]_vars

\* the lowest of two freed slots was reused: a freed slot above the returned
\* one is still free, and count did not grow
C11_Witness ==
    /\ chunk_ret.op = "allocate_component"
    /\ chunk_ret.ok
    /\ \E i \in Freed(chunk) : i > chunk_ret.val
    /\ is_occupied(chunk, chunk_ret.val)

\* C12: allocate_component returns None exactly when active_count = capacity
\* and then changes nothing; on a filled chunk from which one slot i was
\* freed, the next allocate succeeds and returns i.
C12_NoneExactlyWhenFull ==
    [][ chunk_ret'.op = "allocate_component"
          => /\ ~chunk_ret'.ok <=> chunk.active_count = chunk.capacity
             /\ ~chunk_ret'.ok => chunk' = chunk
             /\ \A i \in 0..(chunk.capacity - 1) :
                   (chunk.count = chunk.capacity /\ Freed(chunk) = {i})
                       => /\ chunk_ret'.ok
                          /\ chunk_ret'.val = i
                          /\ chunk'.active_count = chunk.capacity ]_vars

\* a chunk of two or more slots refilled through the slot freed in its
\* middle or front: it is full again, and the next allocate will fail
C12_Witness ==
    /\ chunk_ret.op = "allocate_component"
    /\ chunk_ret.ok
    /\ chunk.capacity >= 2
    /\ chunk.active_count = chunk.capacity
    /\ chunk_ret.val < chunk.capacity - 1
    /\ ~Chunk_allocate_component(chunk).ret.some

\* C13: free_component(i) with i >= count, i >= capacity or slot i already
\* free leaves count, active_count and the bitmap unchanged; otherwise it marks
\* exactly slot i free and decrements active_count by one, leaving count and
\* every other slot unchanged.
C13_FreeExactlyOne ==
    [][ chunk_ret'.op = "free_component"
          => LET i == chunk_ret'.index
             IN  IF i >= chunk.count \/ i >= chunk.capacity \/ BitOf(chunk, i)
                 THEN /\ chunk'.count = chunk.count
                      /\ chunk'.active_count = chunk.active_count
                      /\ chunk'.free_bitmap = chunk.free_bitmap
                 ELSE /\ BitOf(chunk', i)
                      /\ chunk'.active_count = chunk.active_count - 1
                      /\ chunk'.count = chunk.count
                      /\ \A j \in 0..(chunk.capacity - 1) :
                            j # i => /\ BitOf(chunk', j) <=> BitOf(chunk, j)
                                     /\ chunk'.data[j + 1] = chunk.data[j + 1] ]_vars

\* an occupied slot was freed while a neighbour above it stays occupied
C13_Witness ==
    /\ chunk_ret.op = "free_component"
    /\ chunk_ret.ok
    /\ BitOf(chunk, chunk_ret.index)
    /\ is_occupied(chunk, chunk_ret.index + 1)
    /\ chunk.active_count < chunk.count

\* C14: after compact, for every occupancy pattern, there are no interior
\* gaps: the occupied slots are exactly 0..active_count-1 and count (the
\* returned value) equals active_count.
C14_CompactNoGaps ==
    chunk_ret.op = "compact"
        => /\ Occupied(chunk) = 0..(chunk.active_count - 1)
           /\ chunk.count = chunk.active_count
           /\ chunk_ret.val = chunk.count

\* the (old, new) pairs the callback of the last compact was called with
MovedFrom(moves) == {moves[k][1] : k \in 1..Len(moves)}
MovedTo(moves)   == {moves[k][2] : k \in 1..Len(moves)}

\* C15: compact calls the callback exactly once with (old, new), new < old,
\* for every record whose slot changed and for no other record; slot new then
\* holds the contents previously at old, the records never reported stay in
\* their slot, and active_count is unchanged; when count = active_count the
\* callback is never called and the chunk is unchanged.
C15_CompactCallback ==
    [][ chunk_ret'.op = "compact"
          => LET mv == chunk_ret'.moves
             IN  /\ \A k \in 1..Len(mv) :
                       /\ mv[k][2] < mv[k][1]
                       /\ mv[k][1] \in Occupied(chunk)
                       /\ mv[k][2] \notin Occupied(chunk) \ MovedFrom(mv)
                       /\ chunk'.data[mv[k][2] + 1] = chunk.data[mv[k][1] + 1]
                 /\ \A j, k \in 1..Len(mv) :
                       j # k => /\ mv[j][1] # mv[k][1]
                                /\ mv[j][2] # mv[k][2]
                 /\ Occupied(chunk') =
                       (Occupied(chunk) \ MovedFrom(mv)) \cup MovedTo(mv)
                 /\ \A i \in Occupied(chunk) \ MovedFrom(mv) :
                       /\ i \in Occupied(chunk')
                       /\ i \notin MovedTo(mv)
                       /\ chunk'.data[i + 1] = chunk.data[i + 1]
                 /\ chunk'.active_count = chunk.active_count
                 /\ Cardinality(Occupied(chunk')) = Cardinality(Occupied(chunk))
                 /\ chunk.count = chunk.active_count
                       => mv = <<>> /\ chunk' = chunk ]_vars

\* a compaction that moved a written record into the gap while the record in
\* slot 0 stayed in its slot
C15_Witness ==
    /\ chunk_ret.op = "compact"
    /\ Len(chunk_ret.moves) = 1
    /\ chunk_ret.moves[1][2] > 0
    /\ is_occupied(chunk, 0)
    /\ chunk.data[chunk_ret.moves[1][2] + 1] > 0

(***************************************************************************)
(* SpecChunkRange: one Chunk<T> under allocate_component / free_component  *)
(* / compact / reset and process_components_in_range.  T enters the walk   *)
(* only through size_of::<T>(), on which the occupancy of the chunk does   *)
(* not depend: the walk is taken for each of the sizes ElementSizes and    *)
(* for each build target.                                                  *)
(***************************************************************************)
ElementSizes == {4, 8, ComponentSize}

ChunkProcess ==
    /\ \E start \in 0..chunk.capacity : \E end \in 0..(chunk.capacity + 1) :
       \E element_size \in ElementSizes : \E target \in TargetSimdBytes :
          chunk_ret' = [NoChunkCall EXCEPT
                           !.op = "process_components_in_range",
                           !.start = start, !.end = end,
                           !.simd_width = calculate_simd_chunk_size(
                                              element_size, chunk.alignment, target),
                           !.visited = process_components_in_range(
                                           chunk, start, end, element_size, target)]
    /\ chunk' = chunk
    /\ UNCHANGED <<arenaVars, fbmVars, poolVars, utilVars>>

NextChunkRange ==
    ChunkAllocate \/ ChunkFree \/ ChunkCompact \/ ChunkReset \/ ChunkProcess

\* C16: process_components_in_range(start, end) calls the processor exactly
\* once, in ascending order, for each occupied slot i with
\* start <= i < min(end, count) and for no other slot, on the SIMD-batched
\* path as on the per-slot path, for every start, end and simd width.
C16_RangeVisitsOccupiedOnce ==
    chunk_ret.op = "process_components_in_range"
        => chunk_ret.visited =
              SelectSeq(RangeSeq(chunk_ret.start, Min({chunk_ret.end, chunk.count})),
                        LAMBDA i : is_occupied(chunk, i))

(***************************************************************************)
(* SpecPool: one ComponentPool<T> on its arena under allocate_component    *)
(* (the caller then writes the record's value with set_component),         *)
(* free_component of the location of a live record, compact and reset.     *)
(* Every record gets a value of its own, 1, 2, ...: its identity.          *)
(***************************************************************************)
MaxComponentsPerChunk == 1
MaxPoolChunks == 2
\* the records allocated over a run
MaxPoolAllocs == 5

NoPoolCall == [op |-> "new", ok |-> TRUE, location |-> ComponentLocation(0, 0),
               k |-> 0, relocation_map |-> <<>>, panic |-> FALSE,
               thread_count |-> 0, visited |-> <<>>]

\* pool_live: next is the value of the next record, recs the records
\* allocated and not freed: id their value, k their global index; freed the
\* global indices whose latest record was freed (and that no
\* allocate_component gave out since).

\* the state after allocate_component answered r; k is the global index
\* the call gave the record
Allocated(r, k) ==
    /\ pool' = IF r.ret.some
               THEN set_component(r.pool, r.ret.val, pool_live.next)
               ELSE r.pool
    /\ arena' = r.arena
    /\ pool_live' = IF r.ret.some
                    THEN [next |-> pool_live.next + 1,
                          recs |-> pool_live.recs
                                     \cup {[id |-> pool_live.next, k |-> k]},
                          freed |-> pool_live.freed \ {k}]
                    ELSE pool_live
    /\ pool_ret' = [NoPoolCall EXCEPT !.op = "allocate_component",
                       !.ok = r.ret.some, !.location = r.ret.val,
                       !.k = IF r.ret.some THEN k ELSE 0,
                       !.panic = r.panic]

PoolAllocate ==
    /\ pool_live.next <= MaxPoolAllocs
    /\ ~pool_ret.panic
    /\ \E r \in {Pool_allocate_component(pool, arena)} :
          Allocated(r, r.pool.component_count - 1)
    /\ UNCHANGED <<arena_live, arena_ret, fbmVars, chunkVars, utilVars>>

OccupiedLocations(p) ==
    {l \in UNION {{ComponentLocation(ci, xi) :
                      xi \in 0..(ChunkAt(p, ci).val.capacity - 1)} :
                  ci \in 0..Len(p.overflow_chunks)} :
        /\ ChunkAt(p, l.chunk_index).some
        /\ is_occupied(ChunkAt(p, l.chunk_index).val, l.component_index)}

ValueAt(p, l) == ChunkAt(p, l.chunk_index).val.data[l.component_index + 1]

\* the global index of record id, unless a later record was given that index
LatestIndexOf(recs, id) ==
    {r.k : r \in {x \in recs : /\ x.id = id
                                /\ ~\E y \in recs : y.k = x.k /\ y.id > x.id}}

\* free_component of the location of a live record
PoolFree ==
    /\ ~pool_ret.panic
    /\ \E l \in OccupiedLocations(pool) :
          /\ pool' = Pool_free_component(pool, l)
          /\ pool_live' = [pool_live EXCEPT
                              !.recs = {r \in @ : r.id # ValueAt(pool, l)},
                              !.freed = @ \cup LatestIndexOf(pool_live.recs,
                                                             ValueAt(pool, l))]
          /\ pool_ret' = [NoPoolCall EXCEPT !.op = "free_component",
                             !.location = l]
    /\ UNCHANGED <<arena, arena_live, arena_ret, fbmVars, chunkVars, utilVars>>

PoolCompact ==
    /\ ~pool_ret.panic
    /\ \E r \in {Pool_compact(pool, arena)} :
          /\ pool' = r.pool
          /\ arena' = r.arena
          /\ pool_ret' = [NoPoolCall EXCEPT !.op = "compact",
                             !.ok = pool.needs_compaction
                                      /\ pool.active_component_count > 0,
                             !.relocation_map = r.ret]
    /\ UNCHANGED <<pool_live, arena_live, arena_ret, fbmVars, chunkVars, utilVars>>

PoolReset ==
    /\ ~pool_ret.panic
    /\ pool' = Pool_reset(pool)
    /\ pool_live' = [pool_live EXCEPT !.recs = {}, !.freed = {}]
    /\ pool_ret' = [NoPoolCall EXCEPT !.op = "reset"]
    /\ UNCHANGED <<arena, arena_live, arena_ret, fbmVars, chunkVars, utilVars>>

NextPool == PoolAllocate \/ PoolFree \/ PoolCompact \/ PoolReset

(***************************************************************************)
(* ComponentPool claims                                                    *)
(***************************************************************************)
\* C1: the global index k given to a record by allocate_component keeps
\* resolving through get_component_by_index(k) to that record's value until
\* the record is freed, across allocate_component, free_component of other
\* records, and compact.
C1_IndexStable ==
    \A r \in pool_live.recs :
        LET g == get_component_by_index(pool, r.k)
        IN  g.some /\ ~g.fault /\ g.val = r.id

LiveIndices(p) == {k \in 1..Len(p.index_map) : p.index_map[k][1] # USIZE_MAX}
EntryLocation(p, k) == ComponentLocation(p.index_map[k][1], p.index_map[k][2])

\* C2: after any sequence of allocate_component / free_component / compact /
\* reset, every non-deleted index-table entry points at an occupied chunk
\* slot, no two non-deleted entries point at the same (chunk, slot), and
\* every occupied chunk slot is pointed at by exactly one entry.
C2_IndexTableBijective ==
    /\ \A k \in LiveIndices(pool) : EntryLocation(pool, k) \in OccupiedLocations(pool)
    /\ \A j, k \in LiveIndices(pool) :
          j # k => EntryLocation(pool, j) # EntryLocation(pool, k)
    /\ \A l \in OccupiedLocations(pool) :
          \E k \in LiveIndices(pool) : EntryLocation(pool, k) = l

\* what get_component_by_index(k) answered before and answers after a step
Resolves(p, k) == get_component_by_index(p, k)

\* C17: right after compact returns, relocating or not, every global index
\* that resolved to a record before the call resolves to the same value, and
\* every index that was not found before the call is still not found.
C17_CompactKeepsIndices ==
    [][pool_ret'.op = "compact" =>
         \A k \in 0..Len(pool.index_map) :
            IF Resolves(pool, k).some
            THEN /\ Resolves(pool', k).some
                 /\ Resolves(pool', k).val = Resolves(pool, k).val
                 /\ ~Resolves(pool, k).fault => ~Resolves(pool', k).fault
            ELSE ~Resolves(pool', k).some]_vars

\* a compact that moved a record out of an overflow chunk while the index
\* table held a deleted entry
C17_Witness ==
    /\ pool_ret.op = "compact"
    /\ pool_ret.ok
    /\ pool_ret.relocation_map # <<>>
    /\ \E k \in 1..Len(pool.index_map) : pool.index_map[k] = DELETED
    /\ \E k \in LiveIndices(pool) : k > 1

\* the relocation list has an entry for global index k
HasRelocation(relocation_map, k) ==
    \E j \in 1..Len(relocation_map) : relocation_map[j][1] = k

\* C18: the relocation list returned by compact has an entry for every
\* record whose (chunk, slot) location changed, and no entry for a record
\* whose (chunk, slot) location is unchanged.
C18_RelocationListExact ==
    [][pool_ret'.op = "compact" =>
         \A k \in LiveIndices(pool) :
            HasRelocation(pool_ret'.relocation_map, k - 1)
               <=> EntryLocation(pool', k) # EntryLocation(pool, k)]_vars

\* C19: get_component_by_index(k) and get_component_by_index_mut(k) return
\* None, without going to a chunk slot, for every k past the end of the
\* index table and for every k whose record was freed and that was not given
\* out again.
C19_NoneForUnassignedOrFreed ==
    \A k \in 0..(MaxPoolAllocs + 1) :
        (k >= Len(pool.index_map) \/ k \in pool_live.freed) =>
            /\ ~get_component_by_index(pool, k).some
            /\ ~get_component_by_index(pool, k).slot_read
            /\ ~get_component_by_index_mut(pool, k).some
            /\ ~get_component_by_index_mut(pool, k).slot_read

\* an index below the end of the table whose record was just freed, next to
\* an index that still resolves
C19_Witness ==
    /\ pool_ret.op = "free_component"
    /\ \E k \in pool_live.freed : k < Len(pool.index_map)
    /\ \E k \in 0..(MaxPoolAllocs + 1) : get_component_by_index(pool, k).some

\* no chunk of the pool has room, and no overflow chunk can be added: the
\* chunk limit is reached or the arena cannot hold another chunk
NoRoomAnywhere(p, a) ==
    /\ p.primary_chunk.some =>
          ~Chunk_allocate_component(p.primary_chunk.val).ret.some
    /\ FirstOverflowWithRoom(p) = 0
    /\ \/ Len(p.overflow_chunks) >= p.max_chunks
       \/ ~Chunk_new(a, p.components_per_chunk).ret.some

\* C20: allocate_component never panics, whatever components_per_chunk >= 0,
\* max_chunks >= 0 and the arena's state; it returns None when every chunk is
\* full and no chunk can be added, and a call that returns None leaves
\* component_count, active_component_count and the index table unchanged.
C20_AllocateNeverPanics ==
    [][pool_ret'.op = "allocate_component" =>
         /\ ~pool_ret'.panic
         /\ NoRoomAnywhere(pool, arena) => ~pool_ret'.ok
         /\ ~pool_ret'.ok =>
               /\ pool'.component_count = pool.component_count
               /\ pool'.active_component_count = pool.active_component_count
               /\ pool'.index_map = pool.index_map]_vars

\* C21: needs_compaction becomes true only when the fragmentation ratio is
\* above the threshold and the pool holds at least
\* MIN_COMPONENTS_FOR_COMPACTION live records.
C21_CompactionTrigger ==
    [][(~pool.needs_compaction /\ pool'.needs_compaction) =>
          /\ FragmentationAboveThreshold(pool')
          /\ pool'.active_component_count >= MIN_COMPONENTS_FOR_COMPACTION]_vars

\* compact ran: the flag was set, records were live and the arena had room
\* for the new primary chunk
CompactRan(p, a) ==
    /\ p.needs_compaction
    /\ p.active_component_count > 0
    /\ Chunk_new(a, (p.active_component_count * 3) \div 2).ret.some

\* C36: after a compact that ran, all live records are in the primary chunk
\* at slots 0..active-1 in ascending global-index order, there are no
\* overflow chunks, component_count = active_component_count, the
\* fragmentation ratio is 0 and needs_compaction is false.
C36_CompactPacks ==
    [][(pool_ret'.op = "compact" /\ CompactRan(pool, arena)) =>
         LET live == LiveEntries(pool'.index_map, 1)
             n    == pool'.active_component_count
         IN  /\ pool'.overflow_chunks = <<>>
             /\ pool'.component_count = n
             /\ ~pool'.needs_compaction
             /\ Len(live) = n
             /\ \A i \in 1..Len(live) :
                   live[i].location = ComponentLocation(0, i - 1)
             /\ OccupiedLocations(pool')
                  = {ComponentLocation(0, i) : i \in 0..(n - 1)}
             /\ {ValueAt(pool', l) : l \in OccupiedLocations(pool')}
                  = {r.id : r \in pool_live.recs}]_vars

\* C37: a pool never holds more chunks than max_chunks, counting the
\* primary chunk together with all overflow chunks, after any sequence of
\* allocations.
C37_ChunkCountBounded ==
    (IF pool.primary_chunk.some THEN 1 ELSE 0) + Len(pool.overflow_chunks)
        <= pool.max_chunks

\* C29: no step of allocate_component, free_component, compact or reset gives
\* memory back to the arena: the arena cursor and used_space() never decrease,
\* so the chunks a compaction discards keep their bytes consumed.
C29_ArenaNeverShrinks ==
    [][/\ arena'.cursor >= arena.cursor
       /\ used_space(arena') >= used_space(arena)]_vars

\* a compaction has moved the records into a new primary chunk that lies
\* after the discarded one, whose bytes are still below the cursor
C29_Witness ==
    /\ pool_ret.op = "compact"
    /\ pool_ret.ok
    /\ pool.primary_chunk.some
    /\ pool.primary_chunk.val.ptr > 0
    /\ used_space(arena) >= pool.primary_chunk.val.ptr
                              + pool.primary_chunk.val.chunk_size

(***************************************************************************)
(* SpecPoolAnyFree: SpecPool with free_component of any location: of a     *)
(* live record, of a slot already freed, of a slot index one past the      *)
(* chunk's capacity, and of a chunk index one past the last chunk.         *)
(***************************************************************************)
FreeTargets(p) ==
    UNION {{ComponentLocation(ci, xi) :
               xi \in 0..(IF ChunkAt(p, ci).some
                          THEN ChunkAt(p, ci).val.capacity ELSE 0)} :
           ci \in 0..(Len(p.overflow_chunks) + 1)}

PoolFreeAny ==
    /\ ~pool_ret.panic
    /\ \E l \in FreeTargets(pool) :
          /\ pool' = Pool_free_component(pool, l)
          /\ pool_live' = IF l \in OccupiedLocations(pool)
                          THEN [pool_live EXCEPT
                                  !.recs = {r \in @ : r.id # ValueAt(pool, l)},
                                  !.freed = @ \cup LatestIndexOf(pool_live.recs,
                                                                 ValueAt(pool, l))]
                          ELSE pool_live
          /\ pool_ret' = [NoPoolCall EXCEPT !.op = "free_component",
                             !.location = l,
                             !.ok = l \in OccupiedLocations(pool)]
    /\ UNCHANGED <<arena, arena_live, arena_ret, fbmVars, chunkVars, utilVars>>

\* compact would read a slot outside its source chunk: an index entry it
\* moves names a slot index at or past the chunk's capacity
\* (Chunk::get_component_ptr: a debug_assert panic in a debug build, a read
\* of memory outside the chunk otherwise)
CompactReadsOutside(p, a) ==
    /\ p.needs_compaction
    /\ p.active_component_count > 0
    /\ Chunk_new(a, (p.active_component_count * 3) \div 2).ret.some
    /\ \E i \in 1..Min({Len(LiveEntries(p.index_map, 1)),
                         (p.active_component_count * 3) \div 2}) :
          LET location == LiveEntries(p.index_map, 1)[i].location
          IN  /\ ChunkAt(p, location.chunk_index).some
              /\ location.component_index
                   >= ChunkAt(p, location.chunk_index).val.capacity

\* compact; the run ends (panic) at a compact that reads outside a chunk
PoolCompactAny ==
    \/ ~CompactReadsOutside(pool, arena) /\ PoolCompact
    \/ /\ CompactReadsOutside(pool, arena)
       /\ ~pool_ret.panic
       /\ pool_ret' = [NoPoolCall EXCEPT !.op = "compact", !.panic = TRUE]
       /\ UNCHANGED <<pool, pool_live, arenaVars, fbmVars, chunkVars, utilVars>>

NextPoolAnyFree == PoolAllocate \/ PoolFreeAny \/ PoolCompactAny \/ PoolReset

\* C35: after any sequence of pool operations, free_component of an
\* already-freed or out-of-range location included, active_component_count
\* equals the number of occupied slots over the primary and overflow chunks
\* and the number of non-deleted index-table entries, and is at most
\* component_count.
C35_ActiveCountExact ==
    /\ pool.active_component_count = Cardinality(OccupiedLocations(pool))
    /\ pool.active_component_count
         = Cardinality({k \in 1..Len(pool.index_map) :
                           pool.index_map[k] # DELETED})
    /\ pool.active_component_count <= pool.component_count

(***************************************************************************)
(* utils.rs: calculate_thread_workload, and the pool's own copy of it,     *)
(* ComponentPool::get_thread_entity_range.  A range is <<start, end>>.     *)
(***************************************************************************)
calculate_thread_workload_mut(thread_id, thread_count, item_count) ==
    IF thread_count = 0 \/ thread_id >= thread_count \/ item_count = 0
    THEN <<0, 0>>
    ELSE LET base_items_per_thread == item_count \div thread_count
             remainder == item_count % thread_count
             start == thread_id * base_items_per_thread
             items_for_this_thread ==
                 IF thread_id < remainder THEN base_items_per_thread + 1
                 ELSE base_items_per_thread
         IN  <<start, start + items_for_this_thread>>
calculate_thread_workload(thread_id, thread_count, item_count) ==
    IF thread_count = 0 \/ thread_id >= thread_count \/ item_count = 0
    THEN <<0, 0>>
    ELSE LET base_items_per_thread == item_count \div thread_count
             remainder == item_count % thread_count
             start == IF thread_id < remainder
                      THEN thread_id * (base_items_per_thread + 1)
                      ELSE (remainder * (base_items_per_thread + 1))
                             + ((thread_id - remainder) * base_items_per_thread)
             items_for_this_thread ==
                 IF thread_id < remainder THEN base_items_per_thread + 1
                 ELSE base_items_per_thread
         IN  <<start, start + items_for_this_thread>>

\* ComponentPool::get_thread_entity_range
get_thread_entity_range(p, thread_id, thread_count) ==
    IF thread_count = 0 \/ p.active_component_count = 0
    THEN <<0, 0>>
    ELSE LET base_items_per_thread == p.active_component_count \div thread_count
             remainder == p.active_component_count % thread_count
             start == IF thread_id < remainder
                      THEN thread_id * (base_items_per_thread + 1)
                      ELSE (remainder * (base_items_per_thread + 1))
                             + ((thread_id - remainder) * base_items_per_thread)
             items_for_this_thread ==
                 IF thread_id < remainder THEN base_items_per_thread + 1
                 ELSE base_items_per_thread
         IN  <<start, start + items_for_this_thread>>

(***************************************************************************)
(* SpecWorkload: the ranges of every thread 0..thread_count-1, computed by *)
(* calculate_thread_workload for an item count, and by                     *)
(* get_thread_entity_range on a pool that grows by allocate_component      *)
(***************************************************************************)
MaxThreads == 4
MaxItems == 20

ComputeWorkload ==
    /\ \E thread_count \in 0..MaxThreads : \E item_count \in 0..MaxItems :
          workload' = [op |-> "calculate_thread_workload",
                       thread_count |-> thread_count,
                       item_count |-> item_count,
                       ranges |-> [t \in 1..thread_count |->
                                     calculate_thread_workload(
                                        t - 1, thread_count, item_count)]]
    /\ UNCHANGED <<arenaVars, fbmVars, chunkVars, poolVars, slotVars,
                   smapVars, threads, freeChunkVars>>

PoolThreadRanges ==
    /\ \E thread_count \in 0..MaxThreads :
          workload' = [op |-> "get_thread_entity_range",
                       thread_count |-> thread_count,
                       item_count |-> pool.active_component_count,
                       ranges |-> [t \in 1..thread_count |->
                                     get_thread_entity_range(
                                        pool, t - 1, thread_count)]]
    /\ UNCHANGED <<arenaVars, fbmVars, chunkVars, poolVars, slotVars,
                   smapVars, threads, freeChunkVars>>

NextWorkload == ComputeWorkload \/ PoolThreadRanges \/ PoolAllocate

\* C22: for thread_count >= 1 the ranges of the threads 0..thread_count-1
\* start at 0, each begins where the one before ends, the last ends at
\* item_count, no two overlap, and the first (item_count mod thread_count)
\* threads get item_count div thread_count + 1 items, the others
\* item_count div thread_count: sizes differ by at most 1.
C22_ThreadRangesPartition ==
    LET n == workload.thread_count
        r == workload.ranges
        Size(t) == r[t][2] - r[t][1]
    IN  n >= 1 =>
          /\ r[1][1] = 0
          /\ r[n][2] = workload.item_count
          /\ \A t \in 1..(n - 1) : r[t + 1][1] = r[t][2]
          /\ \A t \in 1..n : r[t][1] <= r[t][2]
          /\ \A t, u \in 1..n : t < u => r[t][2] <= r[u][1]
          /\ \A t, u \in 1..n : Size(t) - Size(u) \in {-1, 0, 1}
          /\ \A t \in 1..n :
                Size(t) = (workload.item_count \div n)
                            + (IF t - 1 < workload.item_count % n THEN 1 ELSE 0)

\* C38: get_thread_entity_range(t, n) returns the range
\* calculate_thread_workload(t, n, active_component_count) returns, for every
\* t and n, the empty range (0, 0) when t >= n included: no thread id gets a
\* range that reaches past active_component_count.
C38_PoolRangeIsWorkload ==
    \A n \in 0..MaxThreads : \A t \in 0..MaxThreads :
        /\ get_thread_entity_range(pool, t, n)
             = calculate_thread_workload(t, n, pool.active_component_count)
        /\ get_thread_entity_range(pool, t, n)[2] <= pool.active_component_count

\* three threads share more items than threads, with a remainder of two
C22_Witness ==
    /\ workload.op = "calculate_thread_workload"
    /\ workload.thread_count = 3
    /\ workload.item_count > 3
    /\ workload.item_count % 3 = 2
    /\ workload.ranges[3][2] - workload.ranges[3][1]
         < workload.ranges[1][2] - workload.ranges[1][1]

(***************************************************************************)
(* SpecPoolThreads: SpecPool, and the pool processed by thread_count       *)
(* threads: thread t calls process_components_in_range on the range        *)
(* get_thread_entity_range(t, thread_count) gives it.  The processor only  *)
(* reads, so the order of the threads does not matter: visited lists what  *)
(* thread 0, then thread 1, ... handed to the processor.                   *)
(***************************************************************************)
RECURSIVE ThreadsVisit(_, _, _)
ThreadsVisit(p, t, thread_count) ==
    IF t >= thread_count THEN <<>>
    ELSE Pool_process_components_in_range(
             p, get_thread_entity_range(p, t, thread_count)[1],
             get_thread_entity_range(p, t, thread_count)[2])
           \o ThreadsVisit(p, t + 1, thread_count)

PoolProcessThreads ==
    /\ ~pool_ret.panic
    /\ \E thread_count \in 1..MaxThreads :
          pool_ret' = [NoPoolCall EXCEPT !.op = "process_components_in_range",
                          !.thread_count = thread_count,
                          !.visited = ThreadsVisit(pool, 0, thread_count)]
    /\ UNCHANGED <<pool, pool_live, arenaVars, fbmVars, chunkVars, utilVars>>

NextPoolThreads == NextPool \/ PoolProcessThreads

\* how often global index k was handed to the processor
TimesVisited(visited, k) == Cardinality({i \in 1..Len(visited) : visited[i] = k})

\* C23: when thread_count threads process the pool, each over its
\* get_thread_entity_range, every live component (an index-table entry that
\* resolves to an occupied slot) is handed to the processor exactly once and
\* nothing else is, also when records were freed.
C23_ThreadsVisitEveryLive ==
    pool_ret.op = "process_components_in_range" =>
        \A k \in 0..Len(pool.index_map) :
            TimesVisited(pool_ret.visited, k)
              = IF Resolves(pool, k).some /\ ~Resolves(pool, k).fault
                THEN 1 ELSE 0

(***************************************************************************)
(* sparse_slot_map.rs: SparseSlotMap<usize, U>, slot.rs: Slot              *)
(* sparse is a Vec<Option<Slot>> (position i + 1 holds sparse index i; a   *)
(* stored slot holds the dense index and the generation), dense the        *)
(* values, indices the external index of each dense position.              *)
(* Generation is an unsigned integer; GenerationModulus stands for 2^bits. *)
(***************************************************************************)
GenerationModulus == 3

Slot_new(index, generation) == [index |-> index, generation |-> generation]
\* Generation::wrapping_add(1)
wrapping_add_1(generation) == (generation + 1) % GenerationModulus

NoSlot == [some |-> FALSE, slot |-> Slot_new(0, 0)]
SomeSlot(sl) == [some |-> TRUE, slot |-> sl]

SlotMap_new == [sparse |-> <<>>, dense |-> <<>>, indices |-> <<>>]

\* Vec::resize(n, None) when n exceeds the length
ResizeSparse(sparse, n, none) ==
    IF n > Len(sparse)
    THEN [k \in 1..n |-> IF k <= Len(sparse) THEN sparse[k] ELSE none]
    ELSE sparse

\* SparseSlotMap::insert: the map, the previous value (or None), and
\* whether the call panicked (dense index out of bounds)
SlotMap_insert(m, slot, value) ==
    LET idx == slot.index
        sparse == ResizeSparse(m.sparse, idx + 1, NoSlot)
        stored == sparse[idx + 1]
    IN  IF stored.some /\ stored.slot.generation = slot.generation
        THEN LET dense_idx == stored.slot.index
             IN  IF dense_idx >= Len(m.dense)
                 THEN [map |-> [m EXCEPT !.sparse = sparse], ret |-> None,
                       panic |-> TRUE]
                 ELSE [map |-> [m EXCEPT !.sparse = sparse,
                                         !.dense[dense_idx + 1] = value],
                       ret |-> Some(m.dense[dense_idx + 1]),
                       panic |-> FALSE]
        ELSE LET dense_idx == Len(m.dense)
             IN  [map |-> [sparse |-> [sparse EXCEPT ![idx + 1] =
                                SomeSlot(Slot_new(dense_idx, slot.generation))],
                           dense |-> Append(m.dense, value),
                           indices |-> Append(m.indices, slot.index)],
                  ret |-> None, panic |-> FALSE]

\* the sparse side after the swap removal at dense_idx: the entry of
\* swapped_index, what indices.swap_remove(dense_idx) returned, is pointed at
\* dense_idx if that entry holds a slot
FixSwapped(sparse, swapped_idx, dense_idx) ==
    IF swapped_idx < Len(sparse) /\ sparse[swapped_idx + 1].some
    THEN [sparse EXCEPT ![swapped_idx + 1] =
             SomeSlot(Slot_new(dense_idx, @.slot.generation))]
    ELSE sparse

\* SparseSlotMap::remove
SlotMap_remove(m, slot) ==
    LET idx == slot.index
        stored == m.sparse[idx + 1]
        cleared == [m.sparse EXCEPT ![idx + 1] = NoSlot]
        dense_idx == stored.slot.index
        last_idx == Len(m.dense) - 1
    IN  IF idx >= Len(m.sparse)
        THEN [map |-> m, ret |-> None, panic |-> FALSE]
        ELSE IF ~stored.some \/ stored.slot.generation # slot.generation
        THEN [map |-> m, ret |-> None, panic |-> FALSE]
        ELSE IF dense_idx > last_idx
        THEN \* dense.len() - 1 underflows, or swap_remove is out of bounds
             [map |-> [m EXCEPT !.sparse = cleared], ret |-> None,
              panic |-> TRUE]
        ELSE IF dense_idx = last_idx
        THEN [map |-> [sparse |-> cleared,
                       dense |-> SubSeq(m.dense, 1, last_idx),
                       indices |-> SubSeq(m.indices, 1, Len(m.indices) - 1)],
              ret |-> Some(m.dense[dense_idx + 1]), panic |-> FALSE]
        ELSE [map |-> [sparse |-> FixSwapped(cleared, m.indices[dense_idx + 1],
                                             dense_idx),
                       dense |-> SwapRemove(m.dense, dense_idx + 1),
                       indices |-> SwapRemove(m.indices, dense_idx + 1)],
              ret |-> Some(m.dense[dense_idx + 1]), panic |-> FALSE]

\* SparseSlotMap::contains
SlotMap_contains(m, slot) ==
    /\ slot.index < Len(m.sparse)
    /\ m.sparse[slot.index + 1].some
    /\ m.sparse[slot.index + 1].slot.generation = slot.generation

\* SparseSlotMap::get: the value (or None) and whether the call panicked
SlotMap_get_anygen(m, slot) ==
    IF slot.index >= Len(m.sparse)
    THEN [ret |-> None, panic |-> FALSE]
    ELSE LET stored == m.sparse[slot.index + 1]
         IN  IF stored.some
             THEN IF stored.slot.index < Len(m.dense)
                  THEN [ret |-> Some(m.dense[stored.slot.index + 1]),
                        panic |-> FALSE]
                  ELSE [ret |-> None, panic |-> TRUE]
             ELSE [ret |-> None, panic |-> FALSE]
SlotMap_get(m, slot) ==
    IF slot.index >= Len(m.sparse)
    THEN [ret |-> None, panic |-> FALSE]
    ELSE LET stored == m.sparse[slot.index + 1]
         IN  IF stored.some /\ stored.slot.generation = slot.generation
             THEN IF stored.slot.index < Len(m.dense)
                  THEN [ret |-> Some(m.dense[stored.slot.index + 1]),
                        panic |-> FALSE]
                  ELSE [ret |-> None, panic |-> TRUE]
             ELSE [ret |-> None, panic |-> FALSE]

\* SparseSlotMap::get_mut
SlotMap_get_mut(m, slot) ==
    IF slot.index >= Len(m.sparse)
    THEN [ret |-> None, panic |-> FALSE]
    ELSE LET stored == m.sparse[slot.index + 1]
         IN  IF stored.some /\ stored.slot.generation = slot.generation
             THEN IF stored.slot.index < Len(m.dense)
                  THEN [ret |-> Some(m.dense[stored.slot.index + 1]),
                        panic |-> FALSE]
                  ELSE [ret |-> None, panic |-> TRUE]
             ELSE [ret |-> None, panic |-> FALSE]

\* SparseSlotMap::clear
SlotMap_clear(m) ==
    [sparse |-> [k \in 1..Len(m.sparse) |-> NoSlot], dense |-> <<>>,
     indices |-> <<>>]

\* SparseCollection::len
SlotMap_len(m) == Len(m.dense)

(***************************************************************************)
(* SpecSlotMap: one SparseSlotMap under insert, remove and clear with any  *)
(* slot (index 0..MaxSlotIndex, any generation) and value                  *)
(***************************************************************************)
MaxSlotIndex == 1
SlotValues == 2
\* the dense entries over a run
MaxSlotDense == 2

Slots == {Slot_new(i, g) : i \in 0..MaxSlotIndex, g \in 0..(GenerationModulus - 1)}

NoSlotMapCall == [op |-> "new", slot |-> Slot_new(0, 0), value |-> 0,
                  ret |-> None, panic |-> FALSE]

\* slotmap_hist: empty, or one slot whose remove succeeded (any one of
\* them) with the number of removes that succeeded at its index since then,
\* counted up to GenerationModulus
CountRemove(hist, slot) ==
    {[h EXCEPT !.removes = IF h.slot.index = slot.index
                           THEN Min({@ + 1, GenerationModulus}) ELSE @] :
        h \in hist}

SlotInsert ==
    /\ ~slotmap_ret.panic
    /\ Len(slotmap.dense) < MaxSlotDense
    /\ \E slot \in Slots : \E value \in 1..SlotValues :
       \E r \in {SlotMap_insert(slotmap, slot, value)} :
          /\ slotmap' = r.map
          /\ slotmap_ret' = [op |-> "insert", slot |-> slot, value |-> value,
                             ret |-> r.ret, panic |-> r.panic]
    /\ UNCHANGED <<slotmap_hist, arenaVars, fbmVars, chunkVars, poolVars,
                   workload, smapVars, threads, freeChunkVars>>

SlotRemove ==
    /\ ~slotmap_ret.panic
    /\ \E slot \in Slots : \E r \in {SlotMap_remove(slotmap, slot)} :
          /\ slotmap' = r.map
          /\ slotmap_ret' = [op |-> "remove", slot |-> slot, value |-> 0,
                             ret |-> r.ret, panic |-> r.panic]
          /\ slotmap_hist' \in IF r.ret.some
                               THEN {CountRemove(slotmap_hist, slot),
                                     {[slot |-> slot, removes |-> 1]}}
                               ELSE {slotmap_hist}
    /\ UNCHANGED <<arenaVars, fbmVars, chunkVars, poolVars, workload,
                   smapVars, threads, freeChunkVars>>

SlotClear ==
    /\ ~slotmap_ret.panic
    /\ slotmap' = SlotMap_clear(slotmap)
    /\ slotmap_ret' = [NoSlotMapCall EXCEPT !.op = "clear"]
    /\ UNCHANGED <<slotmap_hist, arenaVars, fbmVars, chunkVars, poolVars,
                   workload, smapVars, threads, freeChunkVars>>

NextSlotMap == SlotInsert \/ SlotRemove \/ SlotClear

(***************************************************************************)
(* SparseSlotMap claims                                                    *)
(***************************************************************************)
\* the call before the step removed the slot `stale`, and the step
\* re-inserts at its index with the next generation
ReinsertsAfterRemove(stale) ==
    /\ slotmap_ret.op = "remove"
    /\ slotmap_ret.ret.some
    /\ slotmap_ret.slot = stale
    /\ slotmap_ret'.op = "insert"
    /\ slotmap_ret'.slot = Slot_new(stale.index,
                                    wrapping_add_1(stale.generation))

\* C24: after insert with slot (i, g), remove with (i, g) and a re-insert at
\* index i with generation g + 1, get / get_mut / contains / remove with the
\* stale slot (i, g) fail, and with (i, g + 1) they succeed and yield the
\* re-inserted value.
C24_StaleSlotFails ==
    [][\A stale \in Slots :
          ReinsertsAfterRemove(stale) =>
             /\ ~slotmap_ret'.panic
             /\ ~SlotMap_contains(slotmap', stale)
             /\ SlotMap_get(slotmap', stale) = [ret |-> None, panic |-> FALSE]
             /\ SlotMap_get_mut(slotmap', stale)
                  = [ret |-> None, panic |-> FALSE]
             /\ SlotMap_remove(slotmap', stale)
                  = [map |-> slotmap', ret |-> None, panic |-> FALSE]
             /\ SlotMap_contains(slotmap', slotmap_ret'.slot)
             /\ SlotMap_get(slotmap', slotmap_ret'.slot)
                  = [ret |-> Some(slotmap_ret'.value), panic |-> FALSE]
             /\ SlotMap_get_mut(slotmap', slotmap_ret'.slot)
                  = [ret |-> Some(slotmap_ret'.value), panic |-> FALSE]
             /\ SlotMap_remove(slotmap', slotmap_ret'.slot).ret
                  = Some(slotmap_ret'.value)
             /\ ~SlotMap_remove(slotmap', slotmap_ret'.slot).panic]_vars

\* the re-insert at the next generation just happened, with a value other
\* than the one another index holds
C24_Witness ==
    /\ slotmap_ret.op = "insert"
    /\ slotmap_ret.ret = None
    /\ \E h \in slotmap_hist :
          /\ h.removes = 1
          /\ slotmap_ret.slot = Slot_new(h.slot.index,
                                         wrapping_add_1(h.slot.generation))
    /\ Len(slotmap.dense) = 2
    /\ slotmap.dense[1] # slotmap.dense[2]

\* C25: once remove with slot (i, g) has succeeded, contains, get and
\* remove with the stale slot (i, g) never succeed again, whatever insert /
\* remove / clear calls follow, as long as fewer than GenerationModulus
\* removes succeeded at index i (the generation has not wrapped all the way
\* round).
C25_RemovedSlotStaysStale ==
    \A h \in slotmap_hist :
        h.removes < GenerationModulus =>
           /\ ~SlotMap_contains(slotmap, h.slot)
           /\ ~SlotMap_get(slotmap, h.slot).ret.some
           /\ ~SlotMap_remove(slotmap, h.slot).ret.some

\* C26: after any sequence of insert / remove / clear with arbitrary slots,
\* dense and indices have the same length, the sparse entry of indices[d]
\* holds a slot with dense index d for every dense position d, no external
\* index occurs twice in indices, and len() is the number of sparse indices
\* that hold an entry.
C26_SlotMapConsistent ==
    /\ Len(slotmap.dense) = Len(slotmap.indices)
    /\ \A d \in 1..Len(slotmap.indices) :
          /\ slotmap.indices[d] < Len(slotmap.sparse)
          /\ slotmap.sparse[slotmap.indices[d] + 1].some
          /\ slotmap.sparse[slotmap.indices[d] + 1].slot.index = d - 1
    /\ \A d, e \in 1..Len(slotmap.indices) :
          d # e => slotmap.indices[d] # slotmap.indices[e]
    /\ SlotMap_len(slotmap)
         = Cardinality({i \in 1..Len(slotmap.sparse) : slotmap.sparse[i].some})

(***************************************************************************)
(* sparse_map.rs: SparseMap<usize, U>                                      *)
(* sparse is a Vec<Option<usize>> (position i + 1 holds the dense index of *)
(* external index i), dense the values, indices the external index of each *)
(* dense position.                                                         *)
(***************************************************************************)
SparseMap_new == [sparse |-> <<>>, dense |-> <<>>, indices |-> <<>>]

\* SparseMap::insert: the map, the previous value (or None), and whether the
\* call panicked (dense index out of bounds)
SparseMap_insert(m, index, value) ==
    LET sparse == ResizeSparse(m.sparse, index + 1, None)
        stored == sparse[index + 1]
    IN  IF stored.some
        THEN IF stored.val >= Len(m.dense)
             THEN [map |-> [m EXCEPT !.sparse = sparse], ret |-> None,
                   panic |-> TRUE]
             ELSE [map |-> [m EXCEPT !.sparse = sparse,
                                     !.dense[stored.val + 1] = value],
                   ret |-> Some(m.dense[stored.val + 1]), panic |-> FALSE]
        ELSE [map |-> [sparse |-> [sparse EXCEPT ![index + 1] =
                                      Some(Len(m.dense))],
                       dense |-> Append(m.dense, value),
                       indices |-> Append(m.indices, index)],
              ret |-> None, panic |-> FALSE]

\* SparseMap::swap_remove.  swapped_idx is what indices.swap_remove(dense_idx)
\* returned: the element that stood at dense_idx
SparseMap_swap_remove(m, index) ==
    LET stored == m.sparse[index + 1]
        taken == [m.sparse EXCEPT ![index + 1] = None]
        dense_idx == stored.val
        last_idx == Len(m.dense) - 1
        swapped_idx == m.indices[dense_idx + 1]
    IN  IF index >= Len(m.sparse)
        THEN [map |-> m, ret |-> None, panic |-> FALSE]
        ELSE IF ~stored.some
        THEN [map |-> m, ret |-> None, panic |-> FALSE]
        ELSE IF dense_idx > last_idx
        THEN \* dense.len() - 1 underflows, or swap_remove is out of bounds
             [map |-> [m EXCEPT !.sparse = taken], ret |-> None,
              panic |-> TRUE]
        ELSE IF dense_idx = last_idx
        THEN [map |-> [sparse |-> taken,
                       dense |-> SubSeq(m.dense, 1, last_idx),
                       indices |-> SubSeq(m.indices, 1, Len(m.indices) - 1)],
              ret |-> Some(m.dense[dense_idx + 1]), panic |-> FALSE]
        ELSE [map |-> [sparse |-> [taken EXCEPT ![swapped_idx + 1] =
                                      Some(dense_idx)],
                       dense |-> SwapRemove(m.dense, dense_idx + 1),
                       indices |-> SwapRemove(m.indices, dense_idx + 1)],
              ret |-> Some(m.dense[dense_idx + 1]), panic |-> FALSE]

\* SparseMap::contains
SparseMap_contains(m, index) ==
    index < Len(m.sparse) /\ m.sparse[index + 1].some

\* SparseMap::get: the value (or None) and whether the call panicked
SparseMap_get(m, index) ==
    IF index >= Len(m.sparse)
    THEN [ret |-> None, panic |-> FALSE]
    ELSE IF ~m.sparse[index + 1].some
    THEN [ret |-> None, panic |-> FALSE]
    ELSE IF m.sparse[index + 1].val < Len(m.dense)
    THEN [ret |-> Some(m.dense[m.sparse[index + 1].val + 1]), panic |-> FALSE]
    ELSE [ret |-> None, panic |-> TRUE]

\* SparseMap::clear
SparseMap_clear(m) ==
    [sparse |-> [k \in 1..Len(m.sparse) |-> None], dense |-> <<>>,
     indices |-> <<>>]

\* SparseCollection::len
SparseMap_len(m) == Len(m.dense)

(***************************************************************************)
(* SpecSparseMap: one SparseMap under insert, swap_remove and clear with   *)
(* any index 0..MaxSparseIndex and value.  smap_model is the finite map    *)
(* the calls describe: smap_model[k + 1] is the value of the latest insert *)
(* at k not followed by swap_remove(k) or clear, 0 when there is none.     *)
(***************************************************************************)
MaxSparseIndex == 2
SparseValues == 2

EmptyModel == [k \in 1..(MaxSparseIndex + 1) |-> 0]

NoSparseMapCall == [op |-> "new", index |-> 0, value |-> 0, ret |-> None,
                    panic |-> FALSE, present |-> FALSE]

SparseInsert ==
    /\ ~smap_ret.panic
    /\ \E index \in 0..MaxSparseIndex : \E value \in 1..SparseValues :
       \E r \in {SparseMap_insert(smap, index, value)} :
          /\ smap' = r.map
          /\ smap_ret' = [op |-> "insert", index |-> index, value |-> value,
                          ret |-> r.ret, panic |-> r.panic,
                          present |-> smap_model[index + 1] # 0]
          /\ smap_model' = [smap_model EXCEPT ![index + 1] = value]
    /\ UNCHANGED <<arenaVars, fbmVars, chunkVars, poolVars, workload,
                   slotVars, threads, freeChunkVars>>

SparseSwapRemove ==
    /\ ~smap_ret.panic
    /\ \E index \in 0..MaxSparseIndex :
       \E r \in {SparseMap_swap_remove(smap, index)} :
          /\ smap' = r.map
          /\ smap_ret' = [op |-> "swap_remove", index |-> index, value |-> 0,
                          ret |-> r.ret, panic |-> r.panic,
                          present |-> smap_model[index + 1] # 0]
          /\ smap_model' = [smap_model EXCEPT ![index + 1] = 0]
    /\ UNCHANGED <<arenaVars, fbmVars, chunkVars, poolVars, workload,
                   slotVars, threads, freeChunkVars>>

SparseClear ==
    /\ ~smap_ret.panic
    /\ smap' = SparseMap_clear(smap)
    /\ smap_ret' = [NoSparseMapCall EXCEPT !.op = "clear"]
    /\ smap_model' = EmptyModel
    /\ UNCHANGED <<arenaVars, fbmVars, chunkVars, poolVars, workload,
                   slotVars, threads, freeChunkVars>>

NextSparseMap == SparseInsert \/ SparseSwapRemove \/ SparseClear

(***************************************************************************)
(* SparseMap claims                                                        *)
(***************************************************************************)
\* C27: after any sequence of insert / swap_remove / clear, dense and
\* indices have the same length, sparse[indices[d]] = d for every dense
\* position d, every occupied sparse entry points at a dense position whose
\* indices entry is that external index, and len() is the number of occupied
\* sparse entries.
C27_SparseMapConsistent ==
    /\ Len(smap.dense) = Len(smap.indices)
    /\ \A d \in 1..Len(smap.indices) :
          /\ smap.indices[d] < Len(smap.sparse)
          /\ smap.sparse[smap.indices[d] + 1] = Some(d - 1)
    /\ \A i \in 1..Len(smap.sparse) :
          smap.sparse[i].some =>
             /\ smap.sparse[i].val < Len(smap.indices)
             /\ smap.indices[smap.sparse[i].val + 1] = i - 1
    /\ SparseMap_len(smap)
         = Cardinality({i \in 1..Len(smap.sparse) : smap.sparse[i].some})

\* C28: the map behaves as the finite map smap_model: get(k) returns the
\* value of the latest insert at k not followed by swap_remove(k) (None
\* otherwise), contains(k) agrees with get(k), insert returns the previous
\* value iff k was present, and swap_remove(k) returns the stored value iff
\* k was present.
C28_SparseMapIsFiniteMap ==
    /\ \A k \in 0..MaxSparseIndex :
          /\ SparseMap_get(smap, k)
               = [ret |-> IF smap_model[k + 1] # 0
                          THEN Some(smap_model[k + 1]) ELSE None,
                  panic |-> FALSE]
          /\ SparseMap_contains(smap, k) <=> SparseMap_get(smap, k).ret.some
    /\ ~smap_ret.panic
    /\ smap_ret.op \in {"insert", "swap_remove"} =>
          smap_ret.ret.some <=> smap_ret.present

(***************************************************************************)
(* Values of the components a specification does not run                   *)
(***************************************************************************)
(* free_chunk_master.rs: FreeChunkMaster                                   *)
(* indices is a Vec kept in descending order (position i + 1 holds Rust    *)
(* index i), count the cached length.                                      *)
(***************************************************************************)
FreeChunkMaster_new == [indices |-> <<>>, count |-> 0]

\* slice::binary_search_by with the comparator of FreeChunkMaster::binary_search
\* (index.cmp(&chunk_index).reverse()): Less when index > chunk_index.
\* left and right are 0-based; the answer is [found, pos]: Ok(pos) / Err(pos)
RECURSIVE BinarySearchLoop(_, _, _, _)
BinarySearchLoop(indices, chunk_index, left, right) ==
    IF left >= right THEN [found |-> FALSE, pos |-> left]
    ELSE LET mid   == left + ((right - left) \div 2)
             index == indices[mid + 1]
         IN  IF index > chunk_index
             THEN BinarySearchLoop(indices, chunk_index, mid + 1, right)
             ELSE IF index < chunk_index
             THEN BinarySearchLoop(indices, chunk_index, left, mid)
             ELSE [found |-> TRUE, pos |-> mid]

\* FreeChunkMaster::binary_search
binary_search(f, chunk_index) ==
    BinarySearchLoop(f.indices, chunk_index, 0, Len(f.indices))

\* Vec::insert(at, x), at 0-based
InsertAt(s, at, x) ==
    SubSeq(s, 1, at) \o <<x>> \o SubSeq(s, at + 1, Len(s))

\* an add_chunk that appends at the end of the vector
FreeChunkMaster_add_chunk_mut(f, chunk_index) ==
    IF binary_search(f, chunk_index).found THEN f
    ELSE [indices |-> Append(f.indices, chunk_index), count |-> f.count + 1]

\* FreeChunkMaster::add_chunk
FreeChunkMaster_add_chunk(f, chunk_index) ==
    LET r == binary_search(f, chunk_index)
    IN  IF r.found THEN f
        ELSE [indices |-> InsertAt(f.indices, r.pos, chunk_index),
              count   |-> f.count + 1]

\* FreeChunkMaster::get_best_chunk
FreeChunkMaster_get_best_chunk(f) ==
    IF f.indices = <<>> THEN [master |-> f, ret |-> None]
    ELSE [master |-> [indices |-> Tail(f.indices), count |-> f.count - 1],
          ret    |-> Some(Head(f.indices))]

\* FreeChunkMaster::contains, FreeChunkMaster::len
FreeChunkMaster_contains(f, chunk_index) == binary_search(f, chunk_index).found
FreeChunkMaster_len(f) == f.count

\* the loop of remove_chunks for at most 8 chunks, from the k-th (1-based) on
RECURSIVE RemoveEach(_, _, _)
RemoveEach(f, chunks_to_remove, k) ==
    IF k > Len(chunks_to_remove) THEN f
    ELSE LET r == binary_search(f, chunks_to_remove[k])
         IN  RemoveEach(IF r.found
                        THEN [indices |-> RemoveAt(f.indices, r.pos + 1),
                              count   |-> f.count - 1]
                        ELSE f,
                        chunks_to_remove, k + 1)

\* the slice length up to which remove_chunks removes chunk by chunk
SMALL_REMOVAL == 8

\* FreeChunkMaster::remove_chunks
FreeChunkMaster_remove_chunks(f, chunks_to_remove) ==
    IF chunks_to_remove = <<>> THEN f
    ELSE IF Len(chunks_to_remove) <= SMALL_REMOVAL THEN RemoveEach(f, chunks_to_remove, 1)
    ELSE LET kept == SelectSeq(f.indices,
                               LAMBDA index :
                                  \A k \in 1..Len(chunks_to_remove) :
                                     chunks_to_remove[k] # index)
         IN  [indices |-> kept, count |-> Len(kept)]

\* FreeChunkMaster::clear
FreeChunkMaster_clear(f) == [indices |-> <<>>, count |-> 0]

(***************************************************************************)
(* SpecFreeChunks: one FreeChunkMaster under add_chunk, get_best_chunk,    *)
(* remove_chunks and clear.  remove_chunks is called with no chunk, one    *)
(* chunk, two neighbouring chunks in either order (the loop), more than 8  *)
(* chunks in ascending order and one chunk repeated 9 times (the retain).  *)
(***************************************************************************)
\* chunk indices are 0..MaxFreeChunkIndex
MaxFreeChunkIndex == 8
FreeChunkIndices == 0..MaxFreeChunkIndex

NoFreeChunkCall == [op |-> "new", chunk_index |-> 0, chunks |-> <<>>,
                    ret |-> None, before |-> {}]

Members(f) == {f.indices[i] : i \in 1..Len(f.indices)}

\* the elements of S in ascending order
RECURSIVE Ascending(_)
Ascending(S) ==
    IF S = {} THEN <<>> ELSE <<Min(S)>> \o Ascending(S \ {Min(S)})

\* s followed by repeats of its last element, up to n entries
PadTo(s, n) ==
    [i \in 1..Max({n, Len(s)}) |-> IF i <= Len(s) THEN s[i] ELSE s[Len(s)]]

RemovalSlices ==
    {<<>>}
      \cup {<<chunk_index>> : chunk_index \in FreeChunkIndices}
      \cup {<<chunk_index, chunk_index + 1>> :
               chunk_index \in FreeChunkIndices \ {MaxFreeChunkIndex}}
      \cup {<<chunk_index + 1, chunk_index>> :
               chunk_index \in FreeChunkIndices \ {MaxFreeChunkIndex}}
      \cup {Ascending(S) : S \in {T \in SUBSET FreeChunkIndices :
                                     Cardinality(T) > SMALL_REMOVAL}}
      \cup {PadTo(<<chunk_index>>, SMALL_REMOVAL + 1) :
               chunk_index \in FreeChunkIndices}

FreeChunksAdd ==
    /\ \E chunk_index \in FreeChunkIndices :
          /\ free_chunks' = FreeChunkMaster_add_chunk(free_chunks, chunk_index)
          /\ free_chunks_ret' = [NoFreeChunkCall EXCEPT
                                   !.op = "add_chunk",
                                   !.chunk_index = chunk_index,
                                   !.before = Members(free_chunks)]
    /\ UNCHANGED <<arenaVars, fbmVars, chunkVars, poolVars, workload,
                   slotVars, smapVars, threads>>

FreeChunksGetBest ==
    /\ free_chunks' = FreeChunkMaster_get_best_chunk(free_chunks).master
    /\ free_chunks_ret' = [NoFreeChunkCall EXCEPT
                             !.op = "get_best_chunk",
                             !.ret = FreeChunkMaster_get_best_chunk(free_chunks).ret,
                             !.before = Members(free_chunks)]
    /\ UNCHANGED <<arenaVars, fbmVars, chunkVars, poolVars, workload,
                   slotVars, smapVars, threads>>

FreeChunksRemove ==
    /\ \E chunks \in RemovalSlices :
          /\ free_chunks' = FreeChunkMaster_remove_chunks(free_chunks, chunks)
          /\ free_chunks_ret' = [NoFreeChunkCall EXCEPT
                                   !.op = "remove_chunks",
                                   !.chunks = chunks,
                                   !.before = Members(free_chunks)]
    /\ UNCHANGED <<arenaVars, fbmVars, chunkVars, poolVars, workload,
                   slotVars, smapVars, threads>>

FreeChunksClear ==
    /\ free_chunks' = FreeChunkMaster_clear(free_chunks)
    /\ free_chunks_ret' = [NoFreeChunkCall EXCEPT
                             !.op = "clear", !.before = Members(free_chunks)]
    /\ UNCHANGED <<arenaVars, fbmVars, chunkVars, poolVars, workload,
                   slotVars, smapVars, threads>>

NextFreeChunks ==
    FreeChunksAdd \/ FreeChunksGetBest \/ FreeChunksRemove \/ FreeChunksClear

(***************************************************************************)
(* FreeChunkMaster claims                                                  *)
(***************************************************************************)
\* C39: after any sequence of add_chunk, get_best_chunk, remove_chunks and
\* clear, the stored indices are strictly descending (no duplicates) and
\* len() is their number; add_chunk of a present index changes nothing (and
\* of an absent one adds it); get_best_chunk removes and returns the highest
\* index, None iff empty; remove_chunks(S) leaves the previous set minus S,
\* for at most 8 chunks and for more than 8.
C39_FreeChunksSortedSet ==
    LET r == free_chunks_ret
        S == Members(free_chunks)
    IN  /\ \A i \in 1..(Len(free_chunks.indices) - 1) :
              free_chunks.indices[i] > free_chunks.indices[i + 1]
        /\ FreeChunkMaster_len(free_chunks) = Len(free_chunks.indices)
        /\ r.op = "add_chunk" => S = r.before \cup {r.chunk_index}
        /\ r.op = "get_best_chunk" =>
              IF r.before = {}
              THEN ~r.ret.some /\ S = {}
              ELSE /\ r.ret.some
                   /\ r.ret.val = Max(r.before)
                   /\ S = r.before \ {r.ret.val}
        /\ r.op = "remove_chunks" =>
              S = r.before \ {r.chunks[k] : k \in 1..Len(r.chunks)}
        /\ r.op = "clear" => S = {}

\* remove_chunks took a slice of more than 8 entries, naming a chunk that
\* was held, out of a master that keeps other chunks
C39_Witness ==
    /\ free_chunks_ret.op = "remove_chunks"
    /\ Len(free_chunks_ret.chunks) > SMALL_REMOVAL
    /\ free_chunks_ret.chunks[1] \in free_chunks_ret.before
    /\ Len(free_chunks.indices) >= 2

(***************************************************************************)
(* SpecArenaShared: several threads call Arena::allocate on one Arena.     *)
(* Arena is declared Send and Sync; cursor is a plain usize that allocate  *)
(* reads (to compute aligned_addr and next) and later writes.  The two     *)
(* accesses of each call are separate steps, so the calls of different     *)
(* threads interleave between them.  Nothing is freed here, so free_blocks *)
(* stays empty and every call with size > 0 takes the bump path.           *)
(* arena_live collects the ranges handed out.                              *)
(***************************************************************************)
SharingThreads == 2
MaxSharedAllocs == 3

IdleThread == [pc |-> "idle", size |-> 0, align |-> 1, aligned_addr |-> 0,
               next |-> 0, ret |-> None]

\* allocate up to the read of self.cursor: size 0 returns self.ptr at once,
\* otherwise aligned_addr and next are computed from the cursor just read
AllocateEnter(t) ==
    /\ threads[t].pc = "idle"
    /\ BagCardinality(arena_live) < MaxSharedAllocs
    /\ arena.free_blocks = <<>>
    /\ \E size \in AllocSizes :
       \E align \in (IF size = 0 THEN {1} ELSE AllocAligns) :
          threads' = [threads EXCEPT ![t] =
              IF size = 0
              THEN [IdleThread EXCEPT !.ret = Some(0)]
              ELSE [pc |-> "loaded", size |-> size, align |-> align,
                    aligned_addr |-> aligned_addr(arena.cursor, align),
                    next |-> aligned_addr(arena.cursor, align) + size,
                    ret |-> None]]
    /\ UNCHANGED <<arenaVars, fbmVars, chunkVars, poolVars, workload,
                   slotVars, smapVars, freeChunkVars>>

\* the rest of allocate: the capacity test on the local next, then the write
\* of self.cursor and the return of ptr + aligned_addr
AllocateFinish(t) ==
    /\ threads[t].pc = "loaded"
    /\ LET th == threads[t]
       IN  IF th.next > arena.capacity
           THEN /\ threads' = [threads EXCEPT ![t] = [th EXCEPT !.pc = "idle",
                                                               !.ret = None]]
                /\ UNCHANGED <<arena, arena_live>>
           ELSE /\ arena' = [arena EXCEPT !.cursor = th.next]
                /\ arena_live' = arena_live
                                   (+) SetToBag({Range(th.aligned_addr, th.size)})
                /\ threads' = [threads EXCEPT ![t] =
                                  [th EXCEPT !.pc = "idle",
                                             !.ret = Some(th.aligned_addr)]]
    /\ UNCHANGED <<arena_ret, fbmVars, chunkVars, poolVars, workload,
                   slotVars, smapVars, freeChunkVars>>

NextArenaShared ==
    \E t \in 1..SharingThreads : AllocateEnter(t) \/ AllocateFinish(t)

IdleWorkload == [op |-> "none", thread_count |-> 0, item_count |-> 0,
                 ranges |-> <<>>]
NoThreads == <<>>

(***************************************************************************)
(* The specifications.  Each runs one component; the variables of the      *)
(* other components stay at their values after construction.               *)
(***************************************************************************)
IdleArena == Arena_new(ArenaRequestBytes)
IdlePool == Pool_new(IdleArena, 0, 0).pool
NoRecords == [next |-> 1, recs |-> {}, freed |-> {}]

InitArena ==
    /\ arena = Arena_new(ArenaRequestBytes)
    /\ arena_live = EmptyBag
    /\ arena_ret = NoCall
    /\ fbm = FBM_new /\ fbm_ret = NoFbmCall /\ fbm_twin = FBM_new
    /\ chunk = EmptyChunk /\ chunk_ret = NoChunkCall
    /\ pool = IdlePool /\ pool_live = NoRecords /\ pool_ret = NoPoolCall
    /\ workload = IdleWorkload /\ threads = NoThreads
    /\ free_chunks = FreeChunkMaster_new /\ free_chunks_ret = NoFreeChunkCall
    /\ slotmap = SlotMap_new /\ slotmap_ret = NoSlotMapCall
    /\ slotmap_hist = {}
    /\ smap = SparseMap_new /\ smap_ret = NoSparseMapCall
    /\ smap_model = EmptyModel

InitFBM ==
    /\ fbm = FBM_new /\ fbm_twin = FBM_new
    /\ fbm_ret = NoFbmCall
    /\ arena = IdleArena /\ arena_live = EmptyBag /\ arena_ret = NoCall
    /\ chunk = EmptyChunk /\ chunk_ret = NoChunkCall
    /\ pool = IdlePool /\ pool_live = NoRecords /\ pool_ret = NoPoolCall
    /\ workload = IdleWorkload /\ threads = NoThreads
    /\ free_chunks = FreeChunkMaster_new /\ free_chunks_ret = NoFreeChunkCall
    /\ slotmap = SlotMap_new /\ slotmap_ret = NoSlotMapCall
    /\ slotmap_hist = {}
    /\ smap = SparseMap_new /\ smap_ret = NoSparseMapCall
    /\ smap_model = EmptyModel

\* a chunk of each capacity 0..MaxChunkCapacity, built on a fresh arena
InitChunk ==
    /\ \E capacity \in 0..MaxChunkCapacity :
       \E r \in {Chunk_new(Arena_new(ArenaRequestBytes), capacity)} :
          /\ r.ret.some
          /\ chunk = r.ret.val
          /\ arena = r.arena
    /\ chunk_ret = NoChunkCall
    /\ arena_live = EmptyBag /\ arena_ret = NoCall
    /\ fbm = FBM_new /\ fbm_ret = NoFbmCall /\ fbm_twin = FBM_new
    /\ pool = IdlePool /\ pool_live = NoRecords /\ pool_ret = NoPoolCall
    /\ workload = IdleWorkload /\ threads = NoThreads
    /\ free_chunks = FreeChunkMaster_new /\ free_chunks_ret = NoFreeChunkCall
    /\ slotmap = SlotMap_new /\ slotmap_ret = NoSlotMapCall
    /\ slotmap_hist = {}
    /\ smap = SparseMap_new /\ smap_ret = NoSparseMapCall
    /\ smap_model = EmptyModel

\* a pool of each components_per_chunk and chunks_per_pool, built on a
\* fresh arena; no record allocated yet
InitPool ==
    /\ \E cpc \in 0..MaxComponentsPerChunk : \E mc \in 0..MaxPoolChunks :
       \E r \in {Pool_new(Arena_new(ArenaRequestBytes), cpc, mc)} :
          /\ pool = r.pool
          /\ arena = r.arena
    /\ pool_live = NoRecords
    /\ pool_ret = NoPoolCall
    /\ arena_live = EmptyBag /\ arena_ret = NoCall
    /\ fbm = FBM_new /\ fbm_ret = NoFbmCall /\ fbm_twin = FBM_new
    /\ chunk = EmptyChunk /\ chunk_ret = NoChunkCall
    /\ workload = IdleWorkload /\ threads = NoThreads
    /\ free_chunks = FreeChunkMaster_new /\ free_chunks_ret = NoFreeChunkCall
    /\ slotmap = SlotMap_new /\ slotmap_ret = NoSlotMapCall
    /\ slotmap_hist = {}
    /\ smap = SparseMap_new /\ smap_ret = NoSparseMapCall
    /\ smap_model = EmptyModel

SpecArena == InitArena /\ [][NextArena]_vars

SpecFBM == InitFBM /\ [][NextFBM]_vars
SpecFBMDefrag == InitFBM /\ [][NextFBMDefrag]_vars

SpecChunk == InitChunk /\ [][NextChunk]_vars

SpecChunkRange == InitChunk /\ [][NextChunkRange]_vars

SpecPool == InitPool /\ [][NextPool]_vars

SpecWorkload == InitPool /\ [][NextWorkload]_vars

SpecPoolThreads == InitPool /\ [][NextPoolThreads]_vars

SpecPoolAnyFree == InitPool /\ [][NextPoolAnyFree]_vars

InitSlotMap ==
    /\ slotmap = SlotMap_new
    /\ slotmap_ret = NoSlotMapCall
    /\ slotmap_hist = {}
    /\ arena = IdleArena /\ arena_live = EmptyBag /\ arena_ret = NoCall
    /\ fbm = FBM_new /\ fbm_ret = NoFbmCall /\ fbm_twin = FBM_new
    /\ chunk = EmptyChunk /\ chunk_ret = NoChunkCall
    /\ pool = IdlePool /\ pool_live = NoRecords /\ pool_ret = NoPoolCall
    /\ workload = IdleWorkload /\ threads = NoThreads
    /\ free_chunks = FreeChunkMaster_new /\ free_chunks_ret = NoFreeChunkCall
    /\ smap = SparseMap_new /\ smap_ret = NoSparseMapCall
    /\ smap_model = EmptyModel

SpecSlotMap == InitSlotMap /\ [][NextSlotMap]_vars

InitSparseMap ==
    /\ smap = SparseMap_new
    /\ smap_ret = NoSparseMapCall
    /\ smap_model = EmptyModel
    /\ arena = IdleArena /\ arena_live = EmptyBag /\ arena_ret = NoCall
    /\ fbm = FBM_new /\ fbm_ret = NoFbmCall /\ fbm_twin = FBM_new
    /\ chunk = EmptyChunk /\ chunk_ret = NoChunkCall
    /\ pool = IdlePool /\ pool_live = NoRecords /\ pool_ret = NoPoolCall
    /\ workload = IdleWorkload /\ threads = NoThreads
    /\ free_chunks = FreeChunkMaster_new /\ free_chunks_ret = NoFreeChunkCall
    /\ slotmap = SlotMap_new /\ slotmap_ret = NoSlotMapCall
    /\ slotmap_hist = {}

SpecSparseMap == InitSparseMap /\ [][NextSparseMap]_vars

InitArenaShared ==
    /\ arena = Arena_new(ArenaRequestBytes)
    /\ arena_live = EmptyBag
    /\ arena_ret = NoCall
    /\ threads = [t \in 1..SharingThreads |-> IdleThread]
    /\ free_chunks = FreeChunkMaster_new /\ free_chunks_ret = NoFreeChunkCall
    /\ fbm = FBM_new /\ fbm_ret = NoFbmCall /\ fbm_twin = FBM_new
    /\ chunk = EmptyChunk /\ chunk_ret = NoChunkCall
    /\ pool = IdlePool /\ pool_live = NoRecords /\ pool_ret = NoPoolCall
    /\ workload = IdleWorkload
    /\ slotmap = SlotMap_new /\ slotmap_ret = NoSlotMapCall
    /\ slotmap_hist = {}
    /\ smap = SparseMap_new /\ smap_ret = NoSparseMapCall
    /\ smap_model = EmptyModel

SpecArenaShared == InitArenaShared /\ [][NextArenaShared]_vars

InitFreeChunks ==
    /\ free_chunks = FreeChunkMaster_new
    /\ free_chunks_ret = NoFreeChunkCall
    /\ arena = IdleArena /\ arena_live = EmptyBag /\ arena_ret = NoCall
    /\ fbm = FBM_new /\ fbm_ret = NoFbmCall /\ fbm_twin = FBM_new
    /\ chunk = EmptyChunk /\ chunk_ret = NoChunkCall
    /\ pool = IdlePool /\ pool_live = NoRecords /\ pool_ret = NoPoolCall
    /\ workload = IdleWorkload /\ threads = NoThreads
    /\ slotmap = SlotMap_new /\ slotmap_ret = NoSlotMapCall
    /\ slotmap_hist = {}
    /\ smap = SparseMap_new /\ smap_ret = NoSparseMapCall
    /\ smap_model = EmptyModel

SpecFreeChunks == InitFreeChunks /\ [][NextFreeChunks]_vars

====
